---- MODULE Spec2Model ----
(***************************************************************************)
(* Model of the specification parser (src/spec_parser.py), its validators  *)
(* (src/utils/validators.py), the test-name formatter                      *)
(* (src/utils/formatters.py) and the test-case synthesizer                 *)
(* (src/test_generator.py), the user-story parser (src/story_parser.py),   *)
(* the test runner (src/test_runner.py), the report generator              *)
(* (src/report_generator.py) and the agent's run command (run_agent.py) of *)
(* API_Testing_Agent.                                                      *)
(*                                                                         *)
(* Python strings are sequences of one-character strings, so that          *)
(* lower(), upper(), str(), int() and re.sub() are computed, not assumed.  *)
(***************************************************************************)
EXTENDS Integers, Sequences, FiniteSets, TLC

VARIABLES
    doc,        \* the loaded OpenAPI document (self.spec)
    pstate,     \* "new" before SpecParser(...), then "ok" or "error"
    perr,       \* the ValueError raised by the constructor, if any
    endpoints,  \* SpecParser.endpoints
    lists,      \* heap of the list objects TestGenerator.test_cases was bound to
    self_tc,    \* index in lists of the list TestGenerator.test_cases is bound to
    returned,   \* indices in lists of the lists generate_all_tests returned, in call order
    ret,        \* what the last accessor or generator call returned
    fin,        \* format_test_name: the arguments of the call
    fout,       \* format_test_name: <<result>> once called, <<>> before
    content,    \* the text of the stories file
    sstate,     \* "new" before StoryParser(...), then "ok" or "error"
    stories,    \* StoryParser.stories
    serr,       \* the errors of the ValueError raised by StoryParser(...), if any
    output,     \* the text pytest printed, given to PytestResultParser
    presults,   \* <<what PytestResultParser.parse returned>>, <<>> before the call
    engine_out, \* the text pytest prints when the TestRunner launches it
    summary,    \* TestRunner.summary
    called,     \* the last TestRunner call: its name, its environment, whether it raised
    sdict,      \* <<what ACMSTestingAgent.run_tests returned>>, <<>> before the call
    reports,    \* the output directory: which report files exist, what was logged
    json_text,  \* <<the text of test_report.json>>, <<>> while the file does not exist
    loaded,     \* <<json.load of test_report.json>>, <<>> before it is read
    rsummary,   \* ReportGenerator.summary
    built_html, \* <<what ReportGenerator._build_html returned>>, <<>> before the call
    service,    \* what the Ollama service does with a POST
    oret,       \* <<the last OllamaAgent call and what came of it>>, <<>> before any
    ncalls,     \* how many OllamaAgent calls were made
    posts,      \* how many HTTP requests were sent to the service
    mcmd,       \* <<what the generate command of src/main.py did>>, <<>> before
    acmd,       \* <<what a command of run_agent.py or generate_tests_ai.py did>>, <<>> before
    built_md,   \* <<what ReportGenerator._build_markdown returned>>, <<>> before the call
    summaries,  \* the ExecutionSummary objects a TestRunner has created, by identity
    self_summary, \* which of them self.summary names
    rets,       \* per call of a run method: the object returned and what it held then
    store,      \* the agents dict of the mock API server
    agent_counter, \* its global agent_counter
    replied     \* <<the last request it answered>>, <<>> before any

storyVars == <<content, sstate, stories, serr>>
pytestVars == <<output, presults>>
runVars == <<engine_out, summary, called, sdict, reports, json_text, loaded>>
reportVars == <<rsummary, built_html, built_md>>
ollamaVars == <<service, oret, ncalls, posts>>
callVars == <<summaries, self_summary, rets>>
mockVars == <<store, agent_counter, replied>>
lateVars == <<callVars, mockVars>>
restVars == <<reportVars, ollamaVars, acmd, mcmd, lateVars>>
otherVars == <<storyVars, pytestVars, runVars, restVars>>

genVars == <<doc, pstate, perr, endpoints, lists, self_tc, returned, ret, fin, fout>>

vars == <<genVars, otherVars>>

\* no stories file has been given to a StoryParser
StoriesIdle ==
    /\ content = <<>>
    /\ sstate = "new"
    /\ stories = <<>>
    /\ serr = <<>>

\* no PytestResultParser exists
PytestIdle ==
    /\ output = <<>>
    /\ presults = <<>>

NoReports == [html |-> FALSE, md |-> FALSE, failed |-> {}, warnings |-> 0]

\* a TestRunner that has run nothing, an output directory without reports
RunnerFresh ==
    /\ summary = [total_tests |-> 0, passed_tests |-> 0, failed_tests |-> 0,
                  skipped_tests |-> 0, error_tests |-> 0, total_duration_ms |-> <<0, 1>>,
                  test_results |-> <<>>, start_time |-> <<>>, end_time |-> <<>>,
                  errors |-> <<>>]
    /\ called = [op |-> "none", env |-> "none", raised |-> "none"]
    /\ sdict = <<>>
    /\ reports = NoReports
    /\ json_text = <<>>
    /\ loaded = <<>>

RunnerIdle == engine_out = <<>> /\ RunnerFresh

\* no ReportGenerator exists
ReportIdle ==
    /\ rsummary = <<>>
    /\ built_html = <<>>
    /\ built_md = <<>>

\* no OllamaAgent has been called
OllamaIdle ==
    /\ service = <<>>
    /\ oret = <<>>
    /\ ncalls = 0
    /\ posts = 0

\* no TestRunner of the calls model exists
CallsIdle ==
    /\ summaries = <<>>
    /\ self_summary = 0
    /\ rets = <<>>

\* no mock API server runs
MockIdle ==
    /\ store = <<>>
    /\ agent_counter = 0
    /\ replied = <<>>

RestIdle == ReportIdle /\ OllamaIdle /\ acmd = <<>> /\ mcmd = <<>> /\ CallsIdle /\ MockIdle

OthersIdle == StoriesIdle /\ PytestIdle /\ RunnerIdle /\ RestIdle

(***************************************************************************)
(* Bounds of the model.                                                    *)
(***************************************************************************)
MaxPaths == 2        \* path items per document
MaxResponses == 2    \* documented responses per operation of the response family
MaxRuns == 2         \* calls of generate_all_tests on one TestGenerator
MaxParams == 3       \* length up to which an endpoint's parameter list is followed
MaxBaseLen == 4      \* length of format_test_name's base_name
MaxScenarioLen == 1  \* length of format_test_name's scenario
MaxStoryLines == 3   \* lines of a stories file
MaxOutputLines == 3  \* lines of the text pytest printed
MaxRunLines == 2     \* lines of the text pytest prints in a TestRunner run

(***************************************************************************)
(* Strings.                                                                *)
(***************************************************************************)
Lowers == <<"a","b","c","d","e","f","g","h","i","j","k","l","m",
            "n","o","p","q","r","s","t","u","v","w","x","y","z">>
Uppers == <<"A","B","C","D","E","F","G","H","I","J","K","L","M",
            "N","O","P","Q","R","S","T","U","V","W","X","Y","Z">>
Digits == <<"0","1","2","3","4","5","6","7","8","9">>

IndexIn(c, s) == IF \E i \in 1..Len(s) : s[i] = c
                 THEN CHOOSE i \in 1..Len(s) : s[i] = c
                 ELSE 0

\* str.lower() / str.upper(), one character
LowerChar(c) == IF IndexIn(c, Uppers) > 0 THEN Lowers[IndexIn(c, Uppers)] ELSE c
UpperChar(c) == IF IndexIn(c, Lowers) > 0 THEN Uppers[IndexIn(c, Lowers)] ELSE c
Lower(s) == [i \in 1..Len(s) |-> LowerChar(s[i])]
Upper(s) == [i \in 1..Len(s) |-> UpperChar(s[i])]

\* the character class [a-z0-9] of format_test_name's pattern
IsAlnumLower(c) == IndexIn(c, Lowers) > 0 \/ IndexIn(c, Digits) > 0

StartsWith(s, p) == Len(s) >= Len(p) /\ SubSeq(s, 1, Len(p)) = p

\* str(n) for a natural number
RECURSIVE StrNat(_)
StrNat(n) == IF n < 10 THEN <<Digits[n + 1]>>
             ELSE StrNat(n \div 10) \o <<Digits[(n % 10) + 1]>>

IsDigits(s) == Len(s) > 0 /\ \A i \in 1..Len(s) : IndexIn(s[i], Digits) > 0

\* int(s) for a string of decimal digits (any other string raises ValueError)
RECURSIVE IntOfDigits(_)
IntOfDigits(s) == IF Len(s) = 0 THEN 0
                  ELSE 10 * IntOfDigits(SubSeq(s, 1, Len(s) - 1))
                       + (IndexIn(s[Len(s)], Digits) - 1)

\* the pattern without its "+": every character outside the class becomes "_"
RECURSIVE SubNonAlnumEach(_)
SubNonAlnumEach(s) ==
    IF Len(s) = 0 THEN <<>>
    ELSE (IF IsAlnumLower(s[1]) THEN <<s[1]>> ELSE <<"_">>) \o SubNonAlnumEach(Tail(s))

\* re.sub(r'[^a-z0-9]+', '_', s): every maximal run outside the class becomes one "_"
RECURSIVE SubNonAlnum(_)
SubNonAlnum(s) ==
    IF Len(s) = 0 THEN <<>>
    ELSE IF IsAlnumLower(s[1]) THEN <<s[1]>> \o SubNonAlnum(Tail(s))
    ELSE IF Len(s) > 1 /\ ~IsAlnumLower(s[2]) THEN SubNonAlnum(Tail(s))
    ELSE <<"_">> \o SubNonAlnum(Tail(s))

\* str.strip('_')
RECURSIVE LStrip(_)
LStrip(s) == IF Len(s) > 0 /\ s[1] = "_" THEN LStrip(Tail(s)) ELSE s
RECURSIVE RStrip(_)
RStrip(s) == IF Len(s) > 0 /\ s[Len(s)] = "_" THEN RStrip(SubSeq(s, 1, Len(s) - 1)) ELSE s
Strip(s) == RStrip(LStrip(s))

TestPrefix == <<"t","e","s","t","_">>

\* format_test_name(base_name, scenario)
format_test_name(base_name, scenario) ==
    LET full_name == base_name \o <<"_">> \o scenario
        name == Strip(SubNonAlnum(Lower(full_name)))
    IN  IF StartsWith(name, TestPrefix) THEN name ELSE TestPrefix \o name

(***************************************************************************)
(* Regular expressions, matched as Python's re module matches them: a      *)
(* pattern is a sequence of items tried in priority order with             *)
(* backtracking (a greedy repetition tries its longest run first, a lazy   *)
(* one its shortest), and the first success is the match.                  *)
(*   [k |-> "one", cls]                one character of the class          *)
(*   [k |-> "str", str]                a literal text                      *)
(*   [k |-> "rep", cls, min, greedy]   cls+ , cls* , cls+?                 *)
(*   [k |-> "open", g], [k |-> "close", g]   the parentheses of group g    *)
(*   [k |-> "alt", alts]               (?:p1|p2|...), and (?:p)? as p|""   *)
(*   [k |-> "bol"], [k |-> "eol"]      ^ and $                             *)
(* Whitespace is the space, the tab and the newline.                       *)
(***************************************************************************)
IsSpace(c) == c \in {" ", "\t", "\n"}

ClassHas(cls, c, fl) ==
    CASE cls.k = "lit"    -> IF fl.icase THEN LowerChar(c) = LowerChar(cls.c) ELSE c = cls.c
      [] cls.k = "space"  -> IsSpace(c)
      [] cls.k = "digit"  -> IndexIn(c, Digits) > 0
      [] cls.k = "dot"    -> fl.dotall \/ c # "\n"
      [] cls.k = "in"     -> c \in cls.cs
      [] cls.k = "notin"  -> c \notin cls.cs /\ ~(cls.space /\ IsSpace(c))

\* a literal text is one item, matched character by character in one step
ReLit(str) == <<[k |-> "str", str |-> str]>>
\* cls+ is ReRepeat(cls, 1, TRUE), cls* ReRepeat(cls, 0, TRUE), cls+? ReRepeat(cls, 1, FALSE)
ReRepeat(cls, min, greedy) == [k |-> "rep", cls |-> cls, min |-> min, greedy |-> greedy]
\* \s+ , \s* , .+? and \d+
Re == [spaces |-> ReRepeat([k |-> "space"], 1, TRUE),
       optSpaces |-> ReRepeat([k |-> "space"], 0, TRUE),
       lazyAny |-> ReRepeat([k |-> "dot"], 1, FALSE),
       digits |-> ReRepeat([k |-> "digit"], 1, TRUE)]
ReGroup(g, p) == <<[k |-> "open", g |-> g]>> \o p \o <<[k |-> "close", g |-> g]>>
ReFlags(multiline, dotall, icase) ==
    [multiline |-> multiline, dotall |-> dotall, icase |-> icase]

NoMatch == [ok |-> FALSE, start |-> 0, end |-> 0, caps |-> <<>>]

\* the length of the run of characters of the class from position i of s on
RunLength(cls, s, i, fl) ==
    LET stops == {j \in i..Len(s) : ~ClassHas(cls, s[j], fl)}
    IN  IF stops = {} THEN Len(s) + 1 - i
        ELSE (CHOOSE j \in stops : \A j2 \in stops : j <= j2) - i

\* seqs[lo] \o ... \o seqs[hi]
RECURSIVE ReFlat(_, _, _)
ReFlat(seqs, lo, hi) ==
    IF lo > hi THEN <<>>
    ELSE IF lo = hi THEN seqs[lo]
    ELSE LET mid == (lo + hi) \div 2
         IN  ReFlat(seqs, lo, mid) \o ReFlat(seqs, mid + 1, hi)

\* A partial match is [start, pos, caps]; the partial matches are kept in the
\* order in which backtracking would try them, so the first one that gets
\* through the whole pattern is the match.

\* a repetition: every count from the longest run down when greedy, from the
\* minimum up when lazy
ReRep(it, c, s, fl) ==
    LET run == RunLength(it.cls, s, c.pos, fl)
    IN  IF it.min > run THEN <<>>
        ELSE [k \in 1..(run - it.min + 1) |->
                [c EXCEPT !.pos = IF it.greedy THEN c.pos + run + 1 - k
                                  ELSE c.pos + it.min + k - 1]]

RECURSIVE ReRun(_, _, _, _, _, _)
RECURSIVE ReAlt(_, _, _, _)
RECURSIVE ReStep(_, _, _, _)

\* the partial matches that item it leaves of the partial match c
ReStep(it, c, s, fl) ==
    LET i == c.pos
    IN  CASE it.k = "one" ->
               IF i <= Len(s) /\ ClassHas(it.cls, s[i], fl)
               THEN <<[c EXCEPT !.pos = i + 1]>> ELSE <<>>
          [] it.k = "str" ->
               IF /\ i + Len(it.str) - 1 <= Len(s)
                  /\ \A j \in 1..Len(it.str) :
                        ClassHas([k |-> "lit", c |-> it.str[j]], s[i + j - 1], fl)
               THEN <<[c EXCEPT !.pos = i + Len(it.str)]>> ELSE <<>>
          [] it.k = "rep" -> ReRep(it, c, s, fl)
          [] it.k = "open" -> <<[c EXCEPT !.caps[it.g] = <<i, i>>]>>
          [] it.k = "close" -> <<[c EXCEPT !.caps[it.g] = <<c.caps[it.g][1], i>>]>>
          [] it.k = "alt" -> ReAlt(it.alts, c, s, fl)
          [] it.k = "bol" ->
               IF i = 1 \/ (fl.multiline /\ s[i - 1] = "\n") THEN <<c>> ELSE <<>>
          [] it.k = "eol" ->
               IF \/ i = Len(s) + 1
                  \/ (i = Len(s) /\ s[i] = "\n")
                  \/ (fl.multiline /\ s[i] = "\n")
               THEN <<c>> ELSE <<>>

\* the alternatives in order
ReAlt(alts, c, s, fl) ==
    ReFlat([j \in 1..Len(alts) |-> ReRun(alts[j], 1, Len(alts[j]), <<c>>, s, fl)],
           1, Len(alts))

\* the partial matches cs taken through the items p[lo] .. p[hi]
ReRun(p, lo, hi, cs, s, fl) ==
    IF lo > hi \/ Len(cs) = 0 THEN cs
    ELSE IF lo = hi
    THEN ReFlat([k \in 1..Len(cs) |-> ReStep(p[lo], cs[k], s, fl)], 1, Len(cs))
    ELSE LET mid == (lo + hi) \div 2
         IN  ReRun(p, mid + 1, hi, ReRun(p, lo, mid, cs, s, fl), s, fl)

ReFirst(cs) ==
    IF Len(cs) = 0 THEN NoMatch
    ELSE [ok |-> TRUE, start |-> cs[1].start, end |-> cs[1].pos, caps |-> cs[1].caps]

\* re.search from position i on: the starts are tried from the left
ReSearch(p, s, i, fl) ==
    ReFirst(ReRun(p, 1, Len(p),
                  [k \in 1..(Len(s) + 2 - i) |->
                     [start |-> i + k - 1, pos |-> i + k - 1,
                      caps |-> [g \in 1..4 |-> <<0, 0>>]]], s, fl))

\* re.finditer: the non-overlapping matches, left to right
RECURSIVE ReFindIter(_, _, _, _)
ReFindIter(p, s, i, fl) ==
    LET r == ReSearch(p, s, i, fl)
    IN  IF ~r.ok THEN <<>>
        ELSE <<r>> \o ReFindIter(p, s, IF r.end > r.start THEN r.end ELSE r.end + 1, fl)

\* match.group(g), for a group that took part in the match (caps[g][1] > 0)
ReGroupOf(s, m, g) == SubSeq(s, m.caps[g][1], m.caps[g][2] - 1)

\* re.sub(p, repl, s), repl being a literal string, or \g when g > 0
RECURSIVE ReSubFrom(_, _, _, _, _, _)
ReSubFrom(p, repl, g, s, i, fl) ==
    LET r == ReSearch(p, s, i, fl)
    IN  IF ~r.ok THEN SubSeq(s, i, Len(s))
        ELSE SubSeq(s, i, r.start - 1)
             \o (IF g > 0 THEN ReGroupOf(s, r, g) ELSE repl)
             \o ReSubFrom(p, repl, g, s, r.end, fl)

\* str.split('\n')
RECURSIVE SplitLines(_)
SplitLines(s) ==
    LET i == IndexIn("\n", s)
    IN  IF i = 0 THEN <<s>>
        ELSE <<SubSeq(s, 1, i - 1)>> \o SplitLines(SubSeq(s, i + 1, Len(s)))

\* str.strip()
RECURSIVE StripWs(_)
StripWs(s) ==
    IF Len(s) > 0 /\ IsSpace(s[1]) THEN StripWs(Tail(s))
    ELSE IF Len(s) > 0 /\ IsSpace(s[Len(s)]) THEN StripWs(SubSeq(s, 1, Len(s) - 1))
    ELSE s

(***************************************************************************)
(* The documents.  A JSON/YAML value that the code tests with isinstance   *)
(* carries isObject; a mapping is a function whose DOMAIN is its key set,  *)
(* or, where document order matters, a sequence of entries.                *)
(***************************************************************************)
s_get == <<"g","e","t">>
s_post == <<"p","o","s","t">>
s_put == <<"p","u","t">>
s_delete == <<"d","e","l","e","t","e">>
s_patch == <<"p","a","t","c","h">>
s_head == <<"h","e","a","d">>
s_options == <<"o","p","t","i","o","n","s">>
s_parameters == <<"p","a","r","a","m","e","t","e","r","s">>
s_POST == <<"P","O","S","T">>
s_DELETE == <<"D","E","L","E","T","E">>

\* the methods in alphabetical order
MethodsSorted == <<s_delete, s_get, s_head, s_options, s_patch, s_post, s_put>>

\* the method list of _extract_endpoints and of validate_endpoint
Methods == <<s_get, s_post, s_put, s_delete, s_patch, s_head, s_options>>
MethodSet == {Methods[i] : i \in 1..Len(Methods)}

RBNone == [nonEmpty |-> FALSE, content |-> 0, required |-> FALSE, hasRequired |-> FALSE]
RBNoContent == [nonEmpty |-> TRUE, content |-> 0, required |-> TRUE, hasRequired |-> TRUE]
RBJson == [nonEmpty |-> TRUE, content |-> 1, required |-> FALSE, hasRequired |-> FALSE]
RBJsonRequired == [nonEmpty |-> TRUE, content |-> 1, required |-> TRUE, hasRequired |-> TRUE]

StrKey(s) == [isStr |-> TRUE, s |-> s, n |-> 0]
IntKey(n) == [isStr |-> FALSE, s |-> <<>>, n |-> n]
s_default == <<"d","e","f","a","u","l","t">>

\* keys a responses mapping may carry: quoted codes, the "default" key, and
\* codes that the YAML loader read as integers
StatusKeys == {StrKey(<<"2","0","0">>), StrKey(<<"2","0","4">>), StrKey(<<"4","0","9">>),
               StrKey(<<"5","0","0">>), StrKey(s_default), IntKey(409)}

Resp(k, c) == [key |-> k, hasContent |-> c]

\* an operation object that declares nothing
OpBare == [isObject |-> TRUE, keys |-> {},
           operationId |-> <<>>, summary |-> <<>>, description |-> <<>>,
           tags |-> <<>>, parameters |-> <<>>, requestBody |-> RBNone,
           responses |-> <<>>, security |-> <<>>]

\* the POST /agents operation of the specification's example
OpCreate == [isObject |-> TRUE,
             keys |-> {"operationId", "summary", "tags", "parameters", "requestBody",
                       "responses", "security"},
             operationId |-> <<"c","r","e","a","t","e","A","g","e","n","t">>,
             summary |-> <<"C","r","e","a","t","e"," ","A","g","e","n","t">>,
             description |-> <<>>,
             tags |-> <<"agents">>,
             parameters |-> <<[name |-> "X-Request-Id", in |-> "header", required |-> FALSE]>>,
             requestBody |-> RBJsonRequired,
             responses |-> <<Resp(StrKey(<<"2","0","1">>), TRUE),
                             Resp(StrKey(<<"4","0","0">>), TRUE),
                             Resp(StrKey(<<"4","0","9">>), FALSE)>>,
             security |-> <<"bearerAuth">>]

\* a method definition that is not an object (a string, a list, null)
NonObject == [OpBare EXCEPT !.isObject = FALSE]

SampleValues == {OpBare, NonObject}

\* keys of the path items of the structure family
ItemKeys == {s_get, s_post, s_parameters}

ObjItem(f) == [isObject |-> TRUE, f |-> f]
NonObjectItem == [isObject |-> FALSE, f |-> [k \in {} |-> OpBare]]

ItemChoices == {NonObjectItem}
               \cup {ObjItem([k \in K |-> v]) : K \in SUBSET ItemKeys, v \in SampleValues}

PathNames == << <<"/","x">>, <<"/","a","g","e","n","t","s">>,
                <<"/","a","g","e","n","t","s","/","{","i","d","}">> >>
PathName(i) == IF i <= Len(PathNames) THEN PathNames[i] ELSE <<"/","p">> \o StrNat(i)

\* sequences of at most n elements of S
SeqsUpTo(S, n) == UNION {[1..m -> S] : m \in 0..n}
DistinctSeqsUpTo(S, n) == {q \in SeqsUpTo(S, n) : \A i, j \in 1..Len(q) : i # j => q[i] # q[j]}

PathsOf(items) == [present |-> TRUE, isObject |-> TRUE,
                   entries |-> [i \in 1..Len(items) |-> [path |-> PathName(i), item |-> items[i]]]]

InfoOk == [present |-> TRUE, isObject |-> TRUE, hasTitle |-> TRUE, hasVersion |-> TRUE]
OpenapiOk == [present |-> TRUE, value |-> <<"3",".","0",".","3">>]

\* structure family: a well-formed top level over every arrangement of path items
DocsStructure == {[openapi |-> OpenapiOk, info |-> InfoOk, paths |-> PathsOf(items)] :
                    items \in SeqsUpTo(ItemChoices, MaxPaths)}

\* example family: the example operation, alone and beside bare operations
ItemCreate == ObjItem([k \in {s_post} |-> OpCreate])
ItemListCreate == ObjItem([k \in {s_get, s_post} |-> IF k = s_post THEN OpCreate ELSE OpBare])
ItemById == ObjItem([k \in {s_delete, s_put} |-> OpBare])
DocsExample == {[openapi |-> OpenapiOk, info |-> InfoOk, paths |-> PathsOf(items)] :
                  items \in {<<ItemCreate>>, <<ItemListCreate>>,
                             <<ItemById, ItemListCreate>>, <<ItemListCreate, ItemById>>}}

\* the methods of the response family: POST, DELETE and one other
ResponseMethods == {s_post, s_delete, s_patch}

\* response family: one operation, under every method and every responses mapping
ResponseDicts == {[i \in 1..Len(q) |-> Resp(q[i], q[i].isStr /\ StartsWith(q[i].s, <<"2">>))] :
                    q \in DistinctSeqsUpTo(StatusKeys, MaxResponses)}
DocsResponses == {[openapi |-> OpenapiOk, info |-> InfoOk,
                   paths |-> PathsOf(<<ObjItem([k \in {m} |-> [OpBare EXCEPT
                                          !.keys = {"responses"}, !.responses = r]])>>)] :
                    m \in ResponseMethods, r \in ResponseDicts}

\* top-level family: every shape of openapi, info and paths
OpenapiChoices == {[present |-> FALSE, value |-> <<>>], OpenapiOk,
                   [present |-> TRUE, value |-> <<"2",".","0">>],
                   [present |-> TRUE, value |-> <<"3","0">>]}
InfoChoices == {[present |-> FALSE, isObject |-> FALSE, hasTitle |-> FALSE, hasVersion |-> FALSE],
                [present |-> TRUE, isObject |-> FALSE, hasTitle |-> FALSE, hasVersion |-> FALSE]}
               \cup {[present |-> TRUE, isObject |-> TRUE, hasTitle |-> t, hasVersion |-> v] :
                       t, v \in BOOLEAN}
PathsChoices == {[present |-> FALSE, isObject |-> FALSE, entries |-> <<>>],
                 [present |-> TRUE, isObject |-> FALSE, entries |-> <<>>],
                 PathsOf(<<>>),
                 PathsOf(<<ObjItem([k \in {s_get} |-> OpBare])>>),
                 PathsOf(<<ObjItem([k \in {s_parameters} |-> OpBare])>>)}
DocsTopLevel == [openapi : OpenapiChoices, info : InfoChoices, paths : PathsChoices]

Docs == DocsStructure \cup DocsExample \cup DocsResponses \cup DocsTopLevel

(***************************************************************************)
(* src/utils/validators.py                                                 *)
(***************************************************************************)
NoPath == <<>>
Err(msg, path, method) == [msg |-> msg, path |-> path, method |-> method]

\* validate_openapi_spec(spec): the errors it collects, in order; it raises
\* ValueError when there is one
validate_openapi_spec(spec) ==
    (IF ~spec.openapi.present THEN <<Err("Missing required field: openapi", NoPath, <<>>)>> ELSE <<>>)
    \o (IF ~spec.info.present THEN <<Err("Missing required field: info", NoPath, <<>>)>> ELSE <<>>)
    \o (IF ~spec.paths.present THEN <<Err("Missing required field: paths", NoPath, <<>>)>> ELSE <<>>)
    \o (IF spec.openapi.present /\ ~StartsWith(spec.openapi.value, <<"3",".">>)
        THEN <<Err("Only OpenAPI 3.x is supported", NoPath, <<>>)>> ELSE <<>>)
    \o (IF spec.info.present
        THEN IF ~spec.info.isObject
             THEN <<Err("'info' must be an object", NoPath, <<>>)>>
             ELSE (IF ~spec.info.hasTitle
                   THEN <<Err("'info.title' is required", NoPath, <<>>)>> ELSE <<>>)
                  \o (IF ~spec.info.hasVersion
                      THEN <<Err("'info.version' is required", NoPath, <<>>)>> ELSE <<>>)
        ELSE <<>>)
    \o (IF spec.paths.present
        THEN IF ~spec.paths.isObject
             THEN <<Err("'paths' must be an object", NoPath, <<>>)>>
             ELSE IF Len(spec.paths.entries) = 0
                  THEN <<Err("'paths' must contain at least one endpoint", NoPath, <<>>)>>
                  ELSE <<>>
        ELSE <<>>)

\* the subsequence of s whose elements satisfy Keep
RECURSIVE SelectMethods(_, _)
SelectMethods(ms, keys) ==
    IF Len(ms) = 0 THEN <<>>
    ELSE (IF ms[1] \in keys THEN <<ms[1]>> ELSE <<>>) \o SelectMethods(Tail(ms), keys)

RECURSIVE MethodErrors(_, _, _)
MethodErrors(methods, endpoint, path) ==
    IF Len(methods) = 0 THEN <<>>
    ELSE (IF ~endpoint.f[methods[1]].isObject
          THEN <<Err("Method must be an object", path, methods[1])>> ELSE <<>>)
         \o MethodErrors(Tail(methods), endpoint, path)

\* validate_endpoint without its "at least one HTTP method" check
validate_endpoint_unchecked(endpoint, path) ==
    IF ~endpoint.isObject
    THEN <<Err("Endpoint must be an object", path, <<>>)>>
    ELSE MethodErrors(SelectMethods(Methods, DOMAIN endpoint.f), endpoint, path)

\* validate_endpoint(endpoint, path): the errors of the ValueError it raises,
\* <<>> when it returns True
validate_endpoint(endpoint, path) ==
    IF ~endpoint.isObject
    THEN <<Err("Endpoint must be an object", path, <<>>)>>
    ELSE LET methods == SelectMethods(Methods, DOMAIN endpoint.f)
         IN  (IF Len(methods) = 0
              THEN <<Err("Endpoint must define at least one HTTP method", path, <<>>)>>
              ELSE <<>>)
             \o MethodErrors(methods, endpoint, path)

(***************************************************************************)
(* src/spec_parser.py                                                      *)
(***************************************************************************)
\* operation.get(key, default)
OpGet(operation, key, default) == IF key \in operation.keys THEN operation[key] ELSE default

\* the endpoint_info dictionary of _extract_endpoints
EndpointInfo(path, method, operation) ==
    [path |-> path,
     method |-> Upper(method),
     operation_id |-> OpGet(operation, "operationId", method \o <<"_">> \o path),
     summary |-> OpGet(operation, "summary", <<>>),
     description |-> OpGet(operation, "description", <<>>),
     tags |-> OpGet(operation, "tags", <<>>),
     parameters |-> OpGet(operation, "parameters", <<>>),
     request_body |-> OpGet(operation, "requestBody", RBNone),
     responses |-> OpGet(operation, "responses", <<>>),
     security |-> OpGet(operation, "security", <<>>)]

\* the inner loop of _extract_endpoints: the methods of one path item, in the
\* order of the method list
RECURSIVE ExtractMethods(_, _, _)
ExtractMethods(methods, path, path_item) ==
    IF Len(methods) = 0 THEN <<>>
    ELSE (IF methods[1] \notin DOMAIN path_item.f THEN <<>>
          ELSE <<EndpointInfo(path, methods[1], path_item.f[methods[1]])>>)
         \o ExtractMethods(Tail(methods), path, path_item)

\* _extract_endpoints over the entries of paths, in document order, appending
\* to acc; it stops at the first path item validate_endpoint rejects
RECURSIVE ExtractEndpoints(_, _)
ExtractEndpoints(entries, acc) ==
    IF Len(entries) = 0 THEN [errors |-> <<>>, endpoints |-> acc]
    ELSE LET path == entries[1].path
             path_item == entries[1].item
             errors == validate_endpoint(path_item, path)
         IN  IF Len(errors) > 0 THEN [errors |-> errors, endpoints |-> acc]
             ELSE ExtractEndpoints(Tail(entries),
                                   acc \o ExtractMethods(Methods, path, path_item))

NoError == [stage |-> "none", errors |-> <<>>]

\* SpecParser.__init__ / _load_spec on the loaded document
LoadSpec ==
    /\ pstate = "new"
    /\ LET top == validate_openapi_spec(doc)
           ex == ExtractEndpoints(doc.paths.entries, <<>>)
       IN  IF Len(top) > 0
           THEN /\ pstate' = "error"
                /\ perr' = [stage |-> "validate_openapi_spec", errors |-> top]
                /\ endpoints' = <<>>
           ELSE IF Len(ex.errors) > 0
           THEN /\ pstate' = "error"
                /\ perr' = [stage |-> "validate_endpoint", errors |-> ex.errors]
                /\ endpoints' = ex.endpoints
           ELSE /\ pstate' = "ok"
                /\ perr' = NoError
                /\ endpoints' = ex.endpoints
    /\ UNCHANGED <<doc, lists, self_tc, returned, ret, fin, fout>>
    /\ UNCHANGED otherVars

\* get_endpoints(): the list self.endpoints itself
get_endpoints == endpoints

\* get_endpoint_by_path(path, method): the first endpoint of the list that
\* matches, None (found = FALSE) when there is none
get_endpoint_by_path(path, method) ==
    LET hits == {i \in 1..Len(endpoints) :
                    /\ endpoints[i].path = path
                    /\ Upper(endpoints[i].method) = Upper(method)}
    IN  IF hits = {} THEN [found |-> FALSE, index |-> 0]
        ELSE [found |-> TRUE, index |-> CHOOSE i \in hits : \A j \in hits : i <= j]

\* the parameter get_parameters_for_endpoint builds for the request body
\* (its schema is an opaque tree and is left out)
BodyParameter(request_body) ==
    [name |-> "body", in |-> "body",
     required |-> IF request_body.hasRequired THEN request_body.required ELSE FALSE]

\* get_parameters_for_endpoint(endpoint): the list endpoint["parameters"]
\* after the call; parameters.append works on that list itself
get_parameters_for_endpoint(endpoint) ==
    LET parameters == endpoint.parameters
        request_body == endpoint.request_body
    IN  IF request_body.nonEmpty /\ request_body.content > 0
        THEN Append(parameters, BodyParameter(request_body))
        ELSE parameters

\* int(status_code) of a responses key: ok = FALSE stands for ValueError
IntOfKey(k) == IF ~k.isStr THEN [ok |-> TRUE, v |-> k.n]
               ELSE IF IsDigits(k.s) THEN [ok |-> TRUE, v |-> IntOfDigits(k.s)]
               ELSE [ok |-> FALSE, v |-> 0]

\* get_response_schemas(endpoint): the keys of the dictionary it returns
get_response_schemas(endpoint) ==
    {IntOfKey(endpoint.responses[i].key).v :
        i \in {j \in 1..Len(endpoint.responses) :
                 /\ IntOfKey(endpoint.responses[j].key).ok
                 /\ endpoint.responses[j].hasContent}}

(***************************************************************************)
(* src/test_generator.py                                                   *)
(***************************************************************************)
\* the keys every endpoint_info dictionary carries
EndpointKeys == {"path", "method", "operation_id", "summary", "description", "tags",
                 "parameters", "request_body", "responses", "security"}

\* endpoint.get(key, default)
EndpointGet(endpoint, key, default) ==
    IF key \in EndpointKeys THEN endpoint[key] ELSE default

\* format_endpoint_path(path, method)
format_endpoint_path(path, method) == Upper(method) \o <<" ">> \o path

\* f"test_{len(self.test_cases) + 1}"
TestId(test_cases) == TestPrefix \o StrNat(Len(test_cases) + 1)

\* TestCase(...); an f-string description is kept as <<literal, formatted part>>
TestCase(id, name, endpoint, method, description, scenario_type, expected_status, assertions, tags) ==
    [id |-> id, name |-> name, endpoint |-> endpoint, method |-> method,
     description |-> description, scenario_type |-> scenario_type,
     expected_status |-> expected_status, assertions |-> assertions, tags |-> tags]

\* the loop "Get first successful response status": the first key, in the
\* mapping's own order, that int() accepts and that lies in 200..299
RECURSIVE FirstSuccessStatus(_, _)
FirstSuccessStatus(responses, expected_status) ==
    IF Len(responses) = 0 THEN expected_status
    ELSE LET status == IntOfKey(responses[1].key)
         IN  IF status.ok /\ 200 <= status.v /\ status.v < 300 THEN status.v
             ELSE FirstSuccessStatus(Tail(responses), expected_status)

s_happy_path == <<"h","a","p","p","y","_","p","a","t","h">>

\* _generate_happy_path_tests(endpoint), with self.test_cases = test_cases
generate_happy_path_tests(endpoint, test_cases) ==
    LET path == endpoint.path
        method == endpoint.method
        responses == EndpointGet(endpoint, "responses", <<>>)
        default_status == IF method = s_POST THEN 201
                          ELSE IF method = s_DELETE THEN 204 ELSE 200
        expected_status == FirstSuccessStatus(responses, default_status)
    IN  <<TestCase(TestId(test_cases),
                   format_test_name(EndpointGet(endpoint, "summary", path), s_happy_path),
                   path, method,
                   <<"Happy path test for ", format_endpoint_path(path, method)>>,
                   "happy_path", expected_status,
                   <<<<"Status code is ", StrNat(expected_status)>>,
                     <<"Response body is not empty", <<>>>>,
                     <<"Response contains expected fields", <<>>>>>>,
                   <<"happy_path">> \o EndpointGet(endpoint, "tags", <<>>))>>

\* the edge_cases table of _generate_edge_case_tests
edge_cases ==
    <<[name |-> <<"w","i","t","h","_","e","m","p","t","y","_","c","o","l","l","e","c","t","i","o","n">>,
       description |-> "Test with empty collection response", expected_status |-> 200],
      [name |-> <<"w","i","t","h","_","n","u","l","l","_","v","a","l","u","e","s">>,
       description |-> "Test with null values in response", expected_status |-> 200],
      [name |-> <<"w","i","t","h","_","l","a","r","g","e","_","d","a","t","a","s","e","t">>,
       description |-> "Test with large dataset", expected_status |-> 200]>>

\* _generate_edge_case_tests(endpoint), with self.test_cases = test_cases
generate_edge_case_tests(endpoint, test_cases) ==
    [i \in 1..Len(edge_cases) |->
        TestCase(TestId(test_cases),
                 format_test_name(EndpointGet(endpoint, "summary", endpoint.path),
                                  edge_cases[i].name),
                 endpoint.path, endpoint.method,
                 <<edge_cases[i].description, <<>>>>,
                 "edge_case", edge_cases[i].expected_status,
                 <<<<"Status code is ", StrNat(edge_cases[i].expected_status)>>,
                   <<"Response handles edge case correctly", <<>>>>>>,
                 <<"edge_case">> \o EndpointGet(endpoint, "tags", <<>>))]

\* the error_scenarios table of _generate_error_scenario_tests
error_scenarios ==
    <<[status |-> 400, name |-> <<"i","n","v","a","l","i","d","_","i","n","p","u","t">>,
       description |-> "Invalid input data"],
      [status |-> 401, name |-> <<"m","i","s","s","i","n","g","_","a","u","t","h">>,
       description |-> "Missing authentication"],
      [status |-> 403,
       name |-> <<"i","n","s","u","f","f","i","c","i","e","n","t","_","p","e","r","m","i","s","s","i","o","n","s">>,
       description |-> "Insufficient permissions"],
      [status |-> 404, name |-> <<"n","o","t","_","f","o","u","n","d">>,
       description |-> "Resource not found"],
      [status |-> 409, name |-> <<"c","o","n","f","l","i","c","t">>,
       description |-> "Conflict/version mismatch"],
      [status |-> 500, name |-> <<"s","e","r","v","e","r","_","e","r","r","o","r">>,
       description |-> "Server error"]>>

\* str(status) in responses: a key of the mapping equal to the string
StrStatusIn(status, responses) ==
    \E i \in 1..Len(responses) : responses[i].key = StrKey(StrNat(status))

\* the condition under which _generate_error_scenario_tests emits a scenario
ErrorScenarioWanted(status, responses) ==
    StrStatusIn(status, responses) \/ status \in {400, 401, 403, 404}

RECURSIVE ErrorScenarioTests(_, _, _)
ErrorScenarioTests(scenarios, endpoint, test_cases) ==
    IF Len(scenarios) = 0 THEN <<>>
    ELSE LET scenario == scenarios[1]
             status == scenario.status
         IN  (IF ErrorScenarioWanted(status, EndpointGet(endpoint, "responses", <<>>))
              THEN <<TestCase(TestId(test_cases),
                              format_test_name(EndpointGet(endpoint, "summary", endpoint.path),
                                               scenario.name),
                              endpoint.path, endpoint.method,
                              <<scenario.description, <<>>>>,
                              "error_scenario", status,
                              <<<<"Status code is ", StrNat(status)>>,
                                <<"Error message is clear", <<>>>>,
                                <<"Error response follows standard format", <<>>>>>>,
                              <<"error_scenario">> \o EndpointGet(endpoint, "tags", <<>>))>>
              ELSE <<>>)
             \o ErrorScenarioTests(Tail(scenarios), endpoint, test_cases)

\* _generate_error_scenario_tests(endpoint), with self.test_cases = test_cases
generate_error_scenario_tests(endpoint, test_cases) ==
    ErrorScenarioTests(error_scenarios, endpoint, test_cases)

\* the security_tests table of _generate_security_tests
security_tests ==
    <<[name |-> <<"m","i","s","s","i","n","g","_","a","u","t","h","_","t","o","k","e","n">>,
       description |-> "Test without authentication token", expected_status |-> 401],
      [name |-> <<"i","n","v","a","l","i","d","_","a","u","t","h","_","t","o","k","e","n">>,
       description |-> "Test with invalid authentication token", expected_status |-> 401],
      [name |-> <<"e","x","p","i","r","e","d","_","a","u","t","h","_","t","o","k","e","n">>,
       description |-> "Test with expired authentication token", expected_status |-> 401],
      [name |-> <<"i","n","s","u","f","f","i","c","i","e","n","t","_","p","e","r","m","i","s","s","i","o","n","s">>,
       description |-> "Test with insufficient permissions", expected_status |-> 403]>>

\* security tests only for an endpoint that declares a security requirement
security_tests_if_declared(endpoint, test_cases) ==
    IF Len(EndpointGet(endpoint, "security", <<>>)) > 0
    THEN [i \in 1..Len(security_tests) |->
            TestCase(TestId(test_cases),
                     format_test_name(EndpointGet(endpoint, "summary", endpoint.path),
                                      security_tests[i].name),
                     endpoint.path, endpoint.method,
                     <<security_tests[i].description, <<>>>>,
                     "security", security_tests[i].expected_status,
                     <<<<"Status code is ", StrNat(security_tests[i].expected_status)>>,
                       <<"Security validation is enforced", <<>>>>>>,
                     <<"security">> \o EndpointGet(endpoint, "tags", <<>>))]
    ELSE <<>>

\* _generate_security_tests(endpoint), with self.test_cases = test_cases;
\* the guard "if security or True" always holds
generate_security_tests(endpoint, test_cases) ==
    LET security == EndpointGet(endpoint, "security", <<>>)
    IN  IF Len(security) > 0 \/ TRUE
        THEN [i \in 1..Len(security_tests) |->
                TestCase(TestId(test_cases),
                         format_test_name(EndpointGet(endpoint, "summary", endpoint.path),
                                          security_tests[i].name),
                         endpoint.path, endpoint.method,
                         <<security_tests[i].description, <<>>>>,
                         "security", security_tests[i].expected_status,
                         <<<<"Status code is ", StrNat(security_tests[i].expected_status)>>,
                           <<"Security validation is enforced", <<>>>>>>,
                         <<"security">> \o EndpointGet(endpoint, "tags", <<>>))]
        ELSE <<>>

\* _should_generate(test_type)
should_generate(test_type) == TRUE

\* one iteration of the loop of generate_all_tests: self.test_cases after the
\* four extend calls for one endpoint
ExtendForEndpoint(endpoint, test_cases) ==
    LET t1 == IF should_generate("happy_path")
              THEN test_cases \o generate_happy_path_tests(endpoint, test_cases)
              ELSE test_cases
        t2 == IF should_generate("edge_case")
              THEN t1 \o generate_edge_case_tests(endpoint, t1) ELSE t1
        t3 == IF should_generate("error_scenario")
              THEN t2 \o generate_error_scenario_tests(endpoint, t2) ELSE t2
        t4 == IF should_generate("security")
              THEN t3 \o generate_security_tests(endpoint, t3) ELSE t3
    IN  t4

\* the loop of generate_all_tests over the endpoints, from self.test_cases = test_cases
RECURSIVE GenerateLoop(_, _)
GenerateLoop(eps, test_cases) ==
    IF Len(eps) = 0 THEN test_cases
    ELSE GenerateLoop(Tail(eps), ExtendForEndpoint(eps[1], test_cases))

\* generate_all_tests without the rebinding: the list of the last run is kept
KeepTestCases(heap, current) == [lists |-> heap, self_tc |-> current]

\* "self.test_cases = []": the name is bound to a new, empty list object
ResetTestCases(heap, current) == [lists |-> Append(heap, <<>>), self_tc |-> Len(heap) + 1]

(***************************************************************************)
(* The user-story parser (src/story_parser.py) and its validator.          *)
(***************************************************************************)
\* r'^##\s+(?:User\s+)?Story\s+(\d+):\s*(.+?)$', re.MULTILINE
story_pattern ==
    <<[k |-> "bol"]>> \o ReLit(<<"#","#">>) \o <<Re.spaces>>
    \o <<[k |-> "alt", alts |-> <<ReLit(<<"U","s","e","r">>) \o <<Re.spaces>>, <<>>>>]>>
    \o ReLit(<<"S","t","o","r","y">>) \o <<Re.spaces>>
    \o ReGroup(1, <<Re.digits>>) \o ReLit(<<":">>) \o <<Re.optSpaces>>
    \o ReGroup(2, <<Re.lazyAny>>) \o <<[k |-> "eol"]>>

\* r'(\d+\.\s+\*\*Given\*\*\s+(.+?)\s*,\s*\*\*When\*\*\s+(.+?)\s*,\s*\*\*Then\*\*\s+(.+?))',
\* re.DOTALL | re.IGNORECASE
criteria_pattern ==
    ReGroup(1,
        <<Re.digits>> \o ReLit(<<".">>) \o <<Re.spaces>>
        \o ReLit(<<"*","*","G","i","v","e","n","*","*">>) \o <<Re.spaces>>
        \o ReGroup(2, <<Re.lazyAny>>) \o <<Re.optSpaces>> \o ReLit(<<",">>) \o <<Re.optSpaces>>
        \o ReLit(<<"*","*","W","h","e","n","*","*">>) \o <<Re.spaces>>
        \o ReGroup(3, <<Re.lazyAny>>) \o <<Re.optSpaces>> \o ReLit(<<",">>) \o <<Re.optSpaces>>
        \o ReLit(<<"*","*","T","h","e","n","*","*">>) \o <<Re.spaces>>
        \o ReGroup(4, <<Re.lazyAny>>))

\* re.sub(r'\*\*|\n', ' ', text).strip() of a stripped group
CleanText(text) ==
    StripWs(ReSubFrom(<<[k |-> "alt", alts |-> <<ReLit(<<"*","*">>), ReLit(<<"\n">>)>>]>>,
                      <<" ">>, 0, StripWs(text), 1, ReFlags(FALSE, FALSE, FALSE)))

\* StoryParser._extract_acceptance_criteria(content)
extract_acceptance_criteria(story_content) ==
    LET matches == ReFindIter(criteria_pattern, story_content, 1, ReFlags(FALSE, TRUE, TRUE))
        criterion(i) ==
            LET given == CleanText(ReGroupOf(story_content, matches[i], 2))
                when == CleanText(ReGroupOf(story_content, matches[i], 3))
                then == CleanText(ReGroupOf(story_content, matches[i], 4))
            IN  [id |-> <<"A","C">> \o StrNat(i),
                 given |-> given, when |-> when, then |-> then,
                 full_text |-> <<"G","i","v","e","n"," ">> \o given
                               \o <<","," ","W","h","e","n"," ">> \o when
                               \o <<","," ","T","h","e","n"," ">> \o then]
    IN  [i \in 1..Len(matches) |-> criterion(i)]

\* StoryParser._extract_description(content)
extract_description(story_content) ==
    LET none == ReFlags(FALSE, FALSE, FALSE)
        match == ReSearch(ReLit(<<"G","i","v","e","n">>) \o <<Re.spaces>>, story_content, 1,
                          ReFlags(FALSE, FALSE, TRUE))
        raw == IF match.ok THEN StripWs(SubSeq(story_content, 1, match.start - 1))
               ELSE StripWs(story_content)
        d1 == ReSubFrom(<<ReRepeat([k |-> "lit", c |-> "#"], 1, TRUE), Re.spaces>>,
                        <<>>, 0, raw, 1, none)
        d2 == ReSubFrom(ReLit(<<"*","*">>) \o ReGroup(1, <<Re.lazyAny>>) \o ReLit(<<"*","*">>),
                        <<>>, 1, d1, 1, none)
    IN  ReSubFrom(ReLit(<<"_","_">>) \o ReGroup(1, <<Re.lazyAny>>) \o ReLit(<<"_","_">>),
                  <<>>, 1, d2, 1, none)

\* StoryParser._parse_markdown(content): the stories appended to self.stories
parse_markdown(text) ==
    LET story_matches == ReFindIter(story_pattern, text, 1, ReFlags(TRUE, FALSE, FALSE))
        story(i) ==
            LET match == story_matches[i]
                end == IF i + 1 <= Len(story_matches) THEN story_matches[i + 1].start - 1
                       ELSE Len(text)
                story_content == SubSeq(text, match.end, end)
            IN  [id |-> <<"U","S">> \o ReGroupOf(text, match, 1),
                 title |-> StripWs(ReGroupOf(text, match, 2)),
                 description |-> extract_description(story_content),
                 acceptance_criteria |-> extract_acceptance_criteria(story_content)]
    IN  [i \in 1..Len(story_matches) |-> story(i)]

\* validate_user_stories(stories) with only the first story checked
RECURSIVE validate_first_story_only(_)
validate_first_story_only(story_list) ==
    IF Len(story_list) = 0 THEN <<[story |-> -1, msg |-> "User stories list must not be empty"]>>
    ELSE IF Len(story_list[1].acceptance_criteria) = 0
    THEN <<[story |-> 0, msg |-> "'acceptance_criteria' must not be empty"]>>
    ELSE <<>>

\* validate_user_stories(stories): the errors it collects; it raises ValueError
\* when there are any.  The stories are dicts with "title" and a list under
\* "acceptance_criteria", as _parse_markdown builds them.
validate_user_stories(story_list) ==
    IF Len(story_list) = 0 THEN <<[story |-> -1, msg |-> "User stories list must not be empty"]>>
    ELSE LET bad == {i \in 1..Len(story_list) : Len(story_list[i].acceptance_criteria) = 0}
             RECURSIVE collect(_)
             collect(i) ==
                 IF i > Len(story_list) THEN <<>>
                 ELSE (IF i \in bad
                       THEN <<[story |-> i - 1, msg |-> "'acceptance_criteria' must not be empty"]>>
                       ELSE <<>>) \o collect(i + 1)
         IN  collect(1)

(***************************************************************************)
(* The test runner (src/test_runner.py).  A float is an exact fraction     *)
(* <<numerator, denominator>> in lowest terms; rounding is not modelled.   *)
(* None is <<>> and a value v of an Optional field is <<v>>.  The escape   *)
(* character of an ANSI colour code is the one-element string "ESC".       *)
(***************************************************************************)
Frac(num, den) ==
    LET RECURSIVE gcd(_, _)
        gcd(a, b) == IF b = 0 THEN a ELSE gcd(b, a % b)
        g == gcd(IF num < 0 THEN -num ELSE num, den)
    IN  <<num \div g, den \div g>>

\* float(text) of a decimal numeral; <<>> stands for ValueError
ParseFloat(text) ==
    LET t == StripWs(text)
        dot == IndexIn(".", t)
        int_part == IF dot = 0 THEN t ELSE SubSeq(t, 1, dot - 1)
        frac_part == IF dot = 0 THEN <<>> ELSE SubSeq(t, dot + 1, Len(t))
        all_digits(x) == \A i \in 1..Len(x) : IndexIn(x[i], Digits) > 0
        RECURSIVE pow10(_)
        pow10(n) == IF n = 0 THEN 1 ELSE 10 * pow10(n - 1)
    IN  IF all_digits(int_part) /\ all_digits(frac_part) /\ Len(int_part) + Len(frac_part) > 0
        THEN <<Frac(IntOfDigits(int_part \o frac_part), pow10(Len(frac_part)))>>
        ELSE <<>>

\* sub in text
Contains(sub, text) ==
    \E i \in 1..(Len(text) - Len(sub) + 1) : SubSeq(text, i, i + Len(sub) - 1) = sub

\* text.replace(c, '') for a character c
Without(c, text) == SelectSeq(text, LAMBDA x : x # c)

\* class TestStatus(str, Enum): the members and their values
TestStatus == [PASSED |-> <<"P","A","S","S","E","D">>,
               FAILED |-> <<"F","A","I","L","E","D">>,
               SKIPPED |-> <<"S","K","I","P","P","E","D">>,
               ERROR |-> <<"E","R","R","O","R">>]

\* TestStatus[name] and TestStatus(value), for a name or value of the Enum
TestStatusOf(text) == CHOOSE n \in DOMAIN TestStatus : TestStatus[n] = text

TestResult(test_name, test_file, status, duration_ms) ==
    [test_name |-> test_name, test_file |-> test_file, status |-> status,
     duration_ms |-> duration_ms, error_message |-> <<>>,
     assertions |-> <<>>, tags |-> <<>>, test_type |-> <<>>]

\* PytestResultParser.__init__: re.sub(r'\x1b\[[0-9;]*m', '', output)
StripAnsi(raw) ==
    ReSubFrom(ReLit(<<"ESC", "[">>)
              \o <<ReRepeat([k |-> "in", cs |-> {Digits[i] : i \in 1..10} \cup {";"}], 0, TRUE)>>
              \o ReLit(<<"m">>),
              <<>>, 0, raw, 1, ReFlags(FALSE, FALSE, FALSE))

\* r'(.+?\.py)::([^\s\[]+)\s+(PASSED|FAILED|SKIPPED|ERROR)(?:\s+\[(.+?)\])?(?:\s+\[\s*\d+%\])?'
test_pattern ==
    ReGroup(1, <<Re.lazyAny>> \o ReLit(<<".","p","y">>)) \o ReLit(<<":",":">>)
    \o ReGroup(2, <<ReRepeat([k |-> "notin", cs |-> {"["}, space |-> TRUE], 1, TRUE)>>)
    \o <<Re.spaces>>
    \o ReGroup(3, <<[k |-> "alt",
                     alts |-> <<ReLit(<<"P","A","S","S","E","D">>),
                                ReLit(<<"F","A","I","L","E","D">>),
                                ReLit(<<"S","K","I","P","P","E","D">>),
                                ReLit(<<"E","R","R","O","R">>)>>]>>)
    \o <<[k |-> "alt",
          alts |-> << <<Re.spaces>> \o ReLit(<<"[">>) \o ReGroup(4, <<Re.lazyAny>>)
                      \o ReLit(<<"]">>), <<>> >>]>>
    \o <<[k |-> "alt",
          alts |-> << <<Re.spaces>> \o ReLit(<<"[">>) \o <<Re.optSpaces, Re.digits>>
                      \o ReLit(<<"%","]">>), <<>> >>]>>

\* the duration of a result line with seconds left as seconds
ParseDurationUnscaled(duration_str) ==
    IF Contains(<<"s">>, duration_str)
    THEN LET v == ParseFloat(Without("s", duration_str))
         IN  IF Len(v) = 1 THEN v[1] ELSE <<0, 1>>
    ELSE <<0, 1>>

\* PytestResultParser.parse, "Parse duration", for a duration_str that is not empty
ParseDuration(duration_str) ==
    IF Contains(<<"s">>, duration_str)
    THEN LET v == ParseFloat(Without("s", duration_str))
         IN  IF Len(v) = 1 THEN Frac(v[1][1] * 1000, v[1][2]) ELSE <<0, 1>>
    ELSE IF Contains(<<"m","s">>, duration_str)
    THEN LET v == ParseFloat(ReSubFrom(ReLit(<<"m","s">>), <<>>, 0, duration_str, 1,
                                       ReFlags(FALSE, FALSE, FALSE)))
         IN  IF Len(v) = 1 THEN v[1] ELSE <<0, 1>>
    ELSE <<0, 1>>

\* the first pass of PytestResultParser.parse over the lines
RECURSIVE ParseLines(_)
ParseLines(lines) ==
    IF Len(lines) = 0 THEN <<>>
    ELSE LET line == lines[1]
             match == ReSearch(test_pattern, line, 1, ReFlags(FALSE, FALSE, FALSE))
             duration_ms == IF match.caps[4][1] > 0
                            THEN ParseDuration(ReGroupOf(line, match, 4))
                            ELSE <<0, 1>>
         IN  (IF match.ok
              THEN <<TestResult(ReGroupOf(line, match, 2), ReGroupOf(line, match, 1),
                                TestStatusOf(ReGroupOf(line, match, 3)), duration_ms)>>
              ELSE <<>>) \o ParseLines(Tail(lines))

\* PytestResultParser._parse_error_messages: current_test is the index in
\* results of the TestResult it refers to, 0 for None
RECURSIVE ParseErrorMessages(_, _, _, _)
ParseErrorMessages(lines, results, current_test, error_lines) ==
    IF Len(lines) = 0 THEN results
    ELSE LET line == lines[1]
             RECURSIVE join(_)
             join(ls) == IF Len(ls) = 0 THEN <<>>
                         ELSE IF Len(ls) = 1 THEN ls[1]
                         ELSE ls[1] \o <<"\n">> \o join(Tail(ls))
             save == current_test > 0 /\ Len(error_lines) > 0
             hits == {i \in 1..Len(results) :
                         /\ Contains(results[i].test_name, line)
                         /\ results[i].status \in {"FAILED", "ERROR"}}
         IN  IF /\ Contains(<<":",":">>, line)
                /\ (Contains(TestStatus.FAILED, line) \/ Contains(TestStatus.ERROR, line))
             THEN ParseErrorMessages(
                      Tail(lines),
                      IF save
                      THEN [results EXCEPT ![current_test].error_message =
                                               <<StripWs(join(error_lines))>>]
                      ELSE results,
                      IF hits = {} THEN current_test
                      ELSE CHOOSE i \in hits : \A j \in hits : i <= j,
                      IF save THEN <<>> ELSE error_lines)
             ELSE IF current_test > 0 /\ Len(StripWs(line)) > 0 /\ ~StartsWith(line, <<"=">>)
             THEN ParseErrorMessages(Tail(lines), results, current_test,
                                     Append(error_lines, line))
             ELSE ParseErrorMessages(Tail(lines), results, current_test, error_lines)

\* PytestResultParser(raw).parse()
parse(raw) ==
    LET lines == SplitLines(StripAnsi(raw))
    IN  ParseErrorMessages(lines, ParseLines(lines), 0, <<>>)

(***************************************************************************)
(* The TestRunner (src/test_runner.py).  datetime.now() is a tick of       *)
(* Times; a timestamp field holds <<>> for None, a datetime                *)
(* [t |-> "datetime", v |-> tick] or, once it was through to_dict, a str   *)
(* [t |-> "str", v |-> text].  A call that raises gives the name of the    *)
(* exception in exc, "" when it returns.                                   *)
(***************************************************************************)
Times == {0, 1}

DateTime(tick) == [t |-> "datetime", v |-> tick]

\* datetime.isoformat()
isoformat(dt) ==
    <<"2","0","2","4","-","0","1","-","0","1","T","0","0",":","0","0",":","0">>
    \o <<Digits[dt.v + 1]>>

FracAdd(a, b) == Frac(a[1] * b[2] + b[1] * a[2], a[2] * b[2])

\* ExecutionSummary(start_time=...), the other fields at their defaults
ExecutionSummary(start_time) ==
    [total_tests |-> 0, passed_tests |-> 0, failed_tests |-> 0, skipped_tests |-> 0,
     error_tests |-> 0, total_duration_ms |-> <<0, 1>>, test_results |-> <<>>,
     start_time |-> start_time, end_time |-> <<>>, errors |-> <<>>]

\* success_rate without its total_tests == 0 test: dividing by zero raises
\* ZeroDivisionError, written <<0, 0>>
success_rate_unguarded(s) ==
    IF s.total_tests = 0 THEN <<0, 0>> ELSE Frac(s.passed_tests * 100, s.total_tests)

\* ExecutionSummary.success_rate
success_rate(s) ==
    IF s.total_tests = 0 THEN <<0, 1>> ELSE Frac(s.passed_tests * 100, s.total_tests)

\* ExecutionSummary.execution_time_seconds
execution_time_seconds(s) == Frac(s.total_duration_ms[1], s.total_duration_ms[2] * 1000)

\* TestResult.to_dict
result_to_dict(r) ==
    [test_name |-> r.test_name, test_file |-> r.test_file, status |-> TestStatus[r.status],
     duration_ms |-> r.duration_ms, error_message |-> r.error_message,
     assertions |-> r.assertions, tags |-> r.tags, test_type |-> <<>>]

\* x.isoformat() if x else None: a str has no isoformat
IsoOrNone(x) ==
    IF x = <<>> THEN [exc |-> "", val |-> <<>>]
    ELSE IF x[1].t = "datetime" THEN [exc |-> "", val |-> <<isoformat(x[1])>>]
    ELSE [exc |-> "AttributeError", val |-> <<>>]

\* ExecutionSummary.to_dict
to_dict(s) ==
    LET start == IsoOrNone(s.start_time)
        end == IsoOrNone(s.end_time)
    IN  IF start.exc # "" THEN [exc |-> start.exc, val |-> <<>>]
        ELSE IF end.exc # "" THEN [exc |-> end.exc, val |-> <<>>]
        ELSE [exc |-> "",
              val |-> <<[total_tests |-> s.total_tests, passed_tests |-> s.passed_tests,
                         failed_tests |-> s.failed_tests, skipped_tests |-> s.skipped_tests,
                         error_tests |-> s.error_tests,
                         total_duration_ms |-> s.total_duration_ms,
                         success_rate |-> success_rate(s),
                         execution_time_seconds |-> execution_time_seconds(s),
                         start_time |-> start.val, end_time |-> end.val,
                         test_results |-> [i \in 1..Len(s.test_results) |->
                                              result_to_dict(s.test_results[i])],
                         errors |-> s.errors]>>]

\* TestRunner._update_summary
update_summary(s) ==
    LET count(st) == Cardinality({i \in 1..Len(s.test_results) : s.test_results[i].status = st})
        RECURSIVE total(_)
        total(i) == IF i > Len(s.test_results) THEN <<0, 1>>
                    ELSE FracAdd(s.test_results[i].duration_ms, total(i + 1))
    IN  [s EXCEPT !.total_tests = Len(s.test_results),
                  !.passed_tests = count("PASSED"),
                  !.failed_tests = count("FAILED"),
                  !.skipped_tests = count("SKIPPED"),
                  !.error_tests = count("ERROR"),
                  !.total_duration_ms = total(1)]

\* what launching pytest may come to
Engines == {"prints", "missing", "hangs"}

\* TestRunner._run_command: subprocess.run(cmd, capture_output=True, timeout=600)
\* raises FileNotFoundError when pytest cannot be launched and TimeoutExpired
\* when it does not end in time
run_command(engine, out) ==
    CASE engine = "prints"  -> [exc |-> "", out |-> out]
      [] engine = "missing" -> [exc |-> "FileNotFoundError", out |-> <<>>]
      [] engine = "hangs"   -> [exc |-> "TimeoutExpired", out |-> <<>>]

\* str(e) of these exceptions
StrOfException(exc) ==
    CASE exc = "FileNotFoundError" -> <<"N","o"," ","s","u","c","h"," ","f","i","l","e",":"," ","'","p","y","t","e","s","t","'">>
      [] exc = "TimeoutExpired" -> <<"t","i","m","e","d"," ","o","u","t">>
      [] OTHER -> <<"e","r","r","o","r">>

\* an except clause that lets a timeout through
CaughtLaunchOnly(exc) == exc \in {"FileNotFoundError", "OSError"}

\* except Exception as e: every error of a launch or of the parsing is one
Caught(exc) == exc \in {"FileNotFoundError", "OSError", "TimeoutExpired", "ValueError",
                        "KeyError", "AttributeError"}

\* the try statement the three run methods share: run the command, parse its
\* output, update the summary; then set end_time and return the summary
TryRun(fresh, engine, out, end_time) ==
    LET ran == run_command(engine, out)
    IN  IF ran.exc = ""
        THEN [exc |-> "", launched |-> 1,
              summary |-> [update_summary([fresh EXCEPT !.test_results = parse(ran.out)])
                             EXCEPT !.end_time = <<end_time>>]]
        ELSE IF Caught(ran.exc)
        THEN [exc |-> "", launched |-> 1,
              summary |-> [fresh EXCEPT !.errors = Append(@, StrOfException(ran.exc)),
                                        !.end_time = <<end_time>>]]
        ELSE [exc |-> ran.exc, launched |-> 1, summary |-> fresh]

\* the early return of run_all_tests and run_test_file
NothingToRun(fresh, message, end_time) ==
    [exc |-> "", launched |-> 0,
     summary |-> [fresh EXCEPT !.errors = Append(@, message), !.end_time = <<end_time>>]]

\* TestRunner.run_all_tests: found says whether _find_test_files found a file
run_all_tests(found, engine, out, start_time, end_time) ==
    IF ~found
    THEN NothingToRun(ExecutionSummary(<<start_time>>),
                      <<"N","o"," ","t","e","s","t"," ","f","i","l","e","s"," ","f","o","u","n","d">>,
                      end_time)
    ELSE TryRun(ExecutionSummary(<<start_time>>), engine, out, end_time)

\* TestRunner.run_test_file: found says whether test_path.exists()
run_test_file(found, engine, out, start_time, end_time) ==
    IF ~found
    THEN NothingToRun(ExecutionSummary(<<start_time>>),
                      <<"T","e","s","t"," ","f","i","l","e"," ","n","o","t"," ","f","o","u","n","d">>,
                      end_time)
    ELSE TryRun(ExecutionSummary(<<start_time>>), engine, out, end_time)

\* TestRunner.run_test_by_pattern
run_test_by_pattern(engine, out, start_time, end_time) ==
    TryRun(ExecutionSummary(<<start_time>>), engine, out, end_time)

\* Path.glob("**/test_*.py"): the file name starts with test_ and ends in .py
IsTestFileName(name) ==
    /\ Len(name) >= 8
    /\ SubSeq(name, 1, 5) = <<"t","e","s","t","_">>
    /\ SubSeq(name, Len(name) - 2, Len(name)) = <<".","p","y">>

\* _find_test_files without its pattern filter
find_all_test_files(test_dir, pattern) ==
    IF test_dir = <<>> THEN {}
    ELSE {f \in test_dir[1] : IsTestFileName(f)}

\* TestRunner._find_test_files: test_dir is <<>> when the directory does not
\* exist, else <<the names of the files in it>>; pattern is <<>> for None;
\* the result is told as a set, sorted() giving it an order only
find_test_files(test_dir, pattern) ==
    IF test_dir = <<>> THEN {}
    ELSE LET files == {f \in test_dir[1] : IsTestFileName(f)}
         IN  IF pattern # <<>> /\ Len(pattern[1]) > 0
             THEN {f \in files : Contains(pattern[1], f)}
             ELSE files

\* test_path.exists() for test_path = self.test_dir / test_file
test_path_exists(test_dir, test_file) == test_dir # <<>> /\ test_file \in test_dir[1]

\* a run method that fills the ExecutionSummary self.summary names already
KeepSummary(objects, current) == [objects |-> objects, ref |-> current]

\* "self.summary = ExecutionSummary(start_time=...)": the name is bound to a
\* new object, the one the method then fills and returns
BindSummary(objects, current) ==
    [objects |-> Append(objects, ExecutionSummary(<<>>)), ref |-> Len(objects) + 1]

(***************************************************************************)
(* JSON text (json.dump and json.load).  The text is the sequence of its   *)
(* tokens, white space left out: a punctuation mark, a string literal with *)
(* its characters escaped as json.dump escapes them, the digits of an      *)
(* integer, null.  The digits of a float are not modelled: its token holds *)
(* the value.  A loaded value is [t, v] with t one of "dict" (v the        *)
(* members [key, val] in order), "list", "str", "int", "float", "null".    *)
(***************************************************************************)
JPunct(c) == [k |-> "punct", v |-> <<c>>]
IsPunct(tok, c) == tok.k = "punct" /\ tok.v = <<c>>

\* the escape sequence of one character of a string
EscapeChar(c) ==
    CASE c = "\"" -> <<"\\", "\"">>
      [] c = "\\" -> <<"\\", "\\">>
      [] c = "\n" -> <<"\\", "n">>
      [] c = "\t" -> <<"\\", "t">>
      [] c = "ESC" -> <<"\\", "u", "0", "0", "1", "b">>
      [] OTHER -> <<c>>

JsonEscape(str) == ReFlat([i \in 1..Len(str) |-> EscapeChar(str[i])], 1, Len(str))

\* a reader that leaves the escape sequences as they are
JsonKeepEscapes(lit) == lit

\* the characters a string literal stands for: a backslash that follows an
\* even number of backslashes starts an escape sequence
JsonUnescape(lit) ==
    LET slashes(i) == RunLength([k |-> "lit", c |-> "\\"], lit, i, ReFlags(FALSE, FALSE, FALSE))
        run_start(i) == CHOOSE j \in 1..i : j + slashes(j) > i /\ (j = 1 \/ lit[j - 1] # "\\")
        starts == {i \in 1..Len(lit) : lit[i] = "\\" /\ (i - run_start(i)) % 2 = 0}
        covered == {i \in 1..Len(lit) :
                      \E e \in starts : \/ i = e + 1
                                        \/ (lit[e + 1] = "u" /\ i \in (e + 2)..(e + 5))}
        decoded(e) ==
            CASE lit[e + 1] = "n" -> <<"\n">>
              [] lit[e + 1] = "t" -> <<"\t">>
              [] lit[e + 1] = "u" ->
                   IF SubSeq(lit, e + 2, e + 5) = <<"0", "0", "1", "b">> THEN <<"ESC">>
                   ELSE <<"?">>
              [] OTHER -> <<lit[e + 1]>>
    IN  ReFlat([i \in 1..Len(lit) |->
                  IF i \in starts THEN decoded(i)
                  ELSE IF i \in covered THEN <<>>
                  ELSE <<lit[i]>>], 1, Len(lit))

JStr(str) == <<[k |-> "str", v |-> JsonEscape(str)]>>
JInt(n) == <<[k |-> "num", v |-> StrNat(n)]>>
JFloat(f) == <<[k |-> "float", v |-> f]>>
JNull == <<[k |-> "null", v |-> <<>>]>>
JOptStr(x) == IF x = <<>> THEN JNull ELSE JStr(x[1])

\* items separated by commas between the marks open and close
JSeq(open, items, close) ==
    <<JPunct(open)>>
    \o ReFlat([i \in 1..Len(items) |->
                 (IF i > 1 THEN <<JPunct(",")>> ELSE <<>>) \o items[i]], 1, Len(items))
    \o <<JPunct(close)>>

JList(items) == JSeq("[", items, "]")
JMember(key, val) == JStr(key) \o <<JPunct(":")>> \o val
JDict(members) == JSeq("{", members, "}")

\* the keys of the two dictionaries
Key == [total_tests |-> <<"t","o","t","a","l","_","t","e","s","t","s">>,
        passed_tests |-> <<"p","a","s","s","e","d","_","t","e","s","t","s">>,
        failed_tests |-> <<"f","a","i","l","e","d","_","t","e","s","t","s">>,
        skipped_tests |-> <<"s","k","i","p","p","e","d","_","t","e","s","t","s">>,
        error_tests |-> <<"e","r","r","o","r","_","t","e","s","t","s">>,
        total_duration_ms |-> <<"t","o","t","a","l","_","d","u","r","a","t","i","o","n","_","m","s">>,
        success_rate |-> <<"s","u","c","c","e","s","s","_","r","a","t","e">>,
        execution_time_seconds |-> <<"e","x","e","c","u","t","i","o","n","_","t","i","m","e","_","s","e","c","o","n","d","s">>,
        start_time |-> <<"s","t","a","r","t","_","t","i","m","e">>,
        end_time |-> <<"e","n","d","_","t","i","m","e">>,
        test_results |-> <<"t","e","s","t","_","r","e","s","u","l","t","s">>,
        errors |-> <<"e","r","r","o","r","s">>,
        test_name |-> <<"t","e","s","t","_","n","a","m","e">>,
        test_file |-> <<"t","e","s","t","_","f","i","l","e">>,
        status |-> <<"s","t","a","t","u","s">>,
        duration_ms |-> <<"d","u","r","a","t","i","o","n","_","m","s">>,
        error_message |-> <<"e","r","r","o","r","_","m","e","s","s","a","g","e">>,
        assertions |-> <<"a","s","s","e","r","t","i","o","n","s">>,
        tags |-> <<"t","a","g","s">>,
        test_type |-> <<"t","e","s","t","_","t","y","p","e">>]

\* json.dump of TestResult.to_dict()
DumpResult(d) ==
    JDict(<<JMember(Key.test_name, JStr(d.test_name)),
            JMember(Key.test_file, JStr(d.test_file)),
            JMember(Key.status, JStr(d.status)),
            JMember(Key.duration_ms, JFloat(d.duration_ms)),
            JMember(Key.error_message, JOptStr(d.error_message)),
            JMember(Key.assertions, JList([i \in 1..Len(d.assertions) |-> JStr(d.assertions[i])])),
            JMember(Key.tags, JList([i \in 1..Len(d.tags) |-> JStr(d.tags[i])])),
            JMember(Key.test_type, JOptStr(d.test_type))>>)

\* json.dump(summary_dict, f, indent=2, cls=DateTimeEncoder)
JsonDump(d) ==
    JDict(<<JMember(Key.total_tests, JInt(d.total_tests)),
            JMember(Key.passed_tests, JInt(d.passed_tests)),
            JMember(Key.failed_tests, JInt(d.failed_tests)),
            JMember(Key.skipped_tests, JInt(d.skipped_tests)),
            JMember(Key.error_tests, JInt(d.error_tests)),
            JMember(Key.total_duration_ms, JFloat(d.total_duration_ms)),
            JMember(Key.success_rate, JFloat(d.success_rate)),
            JMember(Key.execution_time_seconds, JFloat(d.execution_time_seconds)),
            JMember(Key.start_time, JOptStr(d.start_time)),
            JMember(Key.end_time, JOptStr(d.end_time)),
            JMember(Key.test_results,
                    JList([i \in 1..Len(d.test_results) |-> DumpResult(d.test_results[i])])),
            JMember(Key.errors, JList([i \in 1..Len(d.errors) |-> JStr(d.errors[i])]))>>)

\* how many brackets are open after each of the tokens lo..hi, base being open before
RECURSIVE Depths(_, _, _, _)
Depths(toks, lo, hi, base) ==
    IF lo > hi THEN <<>>
    ELSE IF lo = hi
    THEN <<base + (IF IsPunct(toks[lo], "[") \/ IsPunct(toks[lo], "{") THEN 1
                   ELSE IF IsPunct(toks[lo], "]") \/ IsPunct(toks[lo], "}") THEN -1
                   ELSE 0)>>
    ELSE LET mid == (lo + hi) \div 2
             left == Depths(toks, lo, mid, base)
         IN  left \o Depths(toks, mid + 1, hi, left[Len(left)])

\* the items between the outer brackets of toks, split at the commas that are
\* in no inner bracket
SplitItems(toks) ==
    LET inner == SubSeq(toks, 2, Len(toks) - 1)
        depth == Depths(inner, 1, Len(inner), 0)
        commas == {i \in 1..Len(inner) : IsPunct(inner[i], ",") /\ depth[i] = 0}
        n == Cardinality(commas)
        comma(j) == IF j = 0 THEN 0
                    ELSE IF j > n THEN Len(inner) + 1
                    ELSE CHOOSE c \in commas : Cardinality({c2 \in commas : c2 < c}) = j - 1
    IN  IF Len(inner) = 0 THEN <<>>
        ELSE [j \in 1..(n + 1) |-> SubSeq(inner, comma(j - 1) + 1, comma(j) - 1)]

\* json.load of a text that json.dump wrote
RECURSIVE JsonLoad(_)
JsonLoad(toks) ==
    LET first == toks[1]
        items == SplitItems(toks)
    IN  CASE first.k = "str"   -> [t |-> "str", v |-> JsonUnescape(first.v)]
          [] first.k = "num"   -> [t |-> "int", v |-> IntOfDigits(first.v)]
          [] first.k = "float" -> [t |-> "float", v |-> first.v]
          [] first.k = "null"  -> [t |-> "null", v |-> <<>>]
          [] IsPunct(first, "[") ->
               [t |-> "list", v |-> [i \in 1..Len(items) |-> JsonLoad(items[i])]]
          [] IsPunct(first, "{") ->
               [t |-> "dict",
                v |-> [i \in 1..Len(items) |->
                         [key |-> JsonUnescape(items[i][1].v),
                          val |-> JsonLoad(SubSeq(items[i], 3, Len(items[i])))]]]

\* d[key] of a loaded dict
JsonGet(d, key) == d.v[CHOOSE i \in 1..Len(d.v) : d.v[i].key = key].val

(***************************************************************************)
(* The reports (src/report_generator.py) and the run and full commands     *)
(* (run_agent.py).  The text of the HTML and Markdown reports is not       *)
(* modelled, only whether the file was written; unwritable is the set of   *)
(* report formats whose file cannot be opened for writing.                 *)
(***************************************************************************)
Formats == {"html", "md", "json"}

\* ReportGenerator.generate_html_report and generate_markdown_report: render,
\* then open the file and write
generate_text_report(format, unwritable) ==
    IF format \in unwritable THEN [exc |-> "OSError"] ELSE [exc |-> ""]

\* ReportGenerator.generate_json_report: summary.to_dict(), then open the file
\* and json.dump
generate_json_report(s, unwritable) ==
    LET d == to_dict(s)
    IN  IF d.exc # "" THEN [exc |-> d.exc, text |-> <<>>]
        ELSE IF "json" \in unwritable THEN [exc |-> "OSError", text |-> <<>>]
        ELSE [exc |-> "", text |-> <<JsonDump(d.val[1])>>]

\* ACMSTestingAgent.run_tests, ran being what the TestRunner call came to:
\* summary.to_dict(), or {} when something raised
run_tests(ran) ==
    IF ran.exc # "" \/ to_dict(ran.summary).exc # "" THEN [empty |-> TRUE, d |-> <<>>]
    ELSE [empty |-> FALSE, d |-> to_dict(ran.summary).val]

\* generate_reports, "Convert summary dict back to object": the calculated
\* fields are left out, the results become TestResult objects again and the
\* timestamps stay what to_dict made of them
RebuildSummary(d) ==
    LET again(x) == IF x = <<>> THEN <<>> ELSE <<[t |-> "str", v |-> x[1]]>>
    IN  [total_tests |-> d.total_tests, passed_tests |-> d.passed_tests,
         failed_tests |-> d.failed_tests, skipped_tests |-> d.skipped_tests,
         error_tests |-> d.error_tests, total_duration_ms |-> d.total_duration_ms,
         test_results |->
            [i \in 1..Len(d.test_results) |->
                [TestResult(d.test_results[i].test_name, d.test_results[i].test_file,
                            TestStatusOf(d.test_results[i].status),
                            d.test_results[i].duration_ms)
                   EXCEPT !.error_message = d.test_results[i].error_message,
                          !.assertions = d.test_results[i].assertions,
                          !.tags = d.test_results[i].tags]],
         start_time |-> again(d.start_time), end_time |-> again(d.end_time),
         errors |-> d.errors]

\* ACMSTestingAgent.generate_reports: one try statement around the HTML, the
\* Markdown and the JSON report, in this order; the first exception ends it
\* and is logged as a warning
generate_reports(d, unwritable) ==
    LET summary_obj == RebuildSummary(d)
        html == generate_text_report("html", unwritable)
        md == generate_text_report("md", unwritable)
        json == generate_json_report(summary_obj, unwritable)
    IN  IF html.exc # ""
        THEN [html |-> FALSE, md |-> FALSE, json |-> <<>>, warnings |-> 1]
        ELSE IF md.exc # ""
        THEN [html |-> TRUE, md |-> FALSE, json |-> <<>>, warnings |-> 1]
        ELSE IF json.exc # ""
        THEN [html |-> TRUE, md |-> TRUE, json |-> <<>>, warnings |-> 1]
        ELSE [html |-> TRUE, md |-> TRUE, json |-> json.text, warnings |-> 0]

(***************************************************************************)
(* The report texts (src/report_generator.py).  A report is the record of  *)
(* the values its f-string interpolates: the fixed HTML and Markdown       *)
(* around them is left out, the values and the order of the rows are not.  *)
(***************************************************************************)
\* a >= n for a float a, written as a fraction, and an integer n
FracGe(a, n) == a[1] >= n * a[2]

\* the characters of the file names below, in ascending code point order
CodeOrder == <<".", "B", "_", "a", "b", "p", "y">>
ord(c) == IndexIn(c, CodeOrder)

\* a < b for two str
StrLess(a, b) ==
    \E i \in 1..(Len(b)) :
        /\ i <= Len(a) + 1
        /\ \A j \in 1..(i - 1) : a[j] = b[j]
        /\ (i = Len(a) + 1 \/ ord(a[i]) < ord(b[i]))

\* the colour, the icon and the text of one row of the HTML table
HtmlRow(r) ==
    LET passed == TestStatus[r.status] = TestStatus.PASSED
    IN  [test_name |-> r.test_name, test_file |-> r.test_file,
         status_icon |-> IF passed THEN "check" ELSE "cross",
         status_color |-> IF passed THEN "#28a745" ELSE "#dc3545",
         status |-> TestStatus[r.status]]

\* a banner that takes the colour the loop over the rows left in status_color
BannerOfLastRow(passed_pct, status_text, status_color) ==
    [class |-> IF FracGe(passed_pct, 80) THEN "status-pass"
               ELSE IF FracGe(passed_pct, 50) THEN "status-partial" ELSE "status-fail",
     text |-> IF status_color = "#28a745" THEN "PASS"
              ELSE IF status_color = "#ffc107" THEN "PARTIAL" ELSE "FAIL"]

\* the status badge of the HTML report: its class is computed in the
\* template, its text before the loop over the rows
HtmlBanner(passed_pct, status_text, status_color) ==
    [class |-> IF FracGe(passed_pct, 80) THEN "status-pass"
               ELSE IF FracGe(passed_pct, 50) THEN "status-partial" ELSE "status-fail",
     text |-> status_text]

\* ReportGenerator._build_html; the loop over the results assigns
\* status_color again
build_html(s) ==
    LET passed_pct == success_rate(s)
        status_text == IF FracGe(passed_pct, 80) THEN "PASS"
                       ELSE IF FracGe(passed_pct, 50) THEN "PARTIAL" ELSE "FAIL"
        first_color == IF FracGe(passed_pct, 80) THEN "#28a745"
                       ELSE IF FracGe(passed_pct, 50) THEN "#ffc107" ELSE "#dc3545"
        results_rows == [i \in 1..Len(s.test_results) |-> HtmlRow(s.test_results[i])]
        status_color == IF Len(results_rows) = 0 THEN first_color
                        ELSE results_rows[Len(results_rows)].status_color
    IN  [banner |-> HtmlBanner(passed_pct, status_text, status_color),
         passed_pct |-> passed_pct,
         rows |-> results_rows]

\* by_file after the grouping loop: the keys in the order they were first
\* seen, and the list of each key
RECURSIVE GroupByFile(_, _, _)
GroupByFile(results, i, by_file) ==
    IF i > Len(results) THEN by_file
    ELSE LET f == results[i].test_file
             at == {k \in 1..Len(by_file) : by_file[k].key = f}
         IN  GroupByFile(results, i + 1,
                 IF at = {} THEN Append(by_file, [key |-> f, val |-> <<results[i]>>])
                 ELSE [k \in 1..Len(by_file) |->
                          IF k \in at THEN [by_file[k] EXCEPT !.val = Append(@, results[i])]
                          ELSE by_file[k]])

\* by_file.keys(), as they are
keys_as_inserted(by_file) == [k \in 1..Len(by_file) |-> by_file[k].key]

\* sorted(by_file.keys()): the keys of a dict are distinct, so each key
\* stands after exactly the keys that are less than it
sorted_keys(by_file) ==
    LET below(k) == {j \in 1..Len(by_file) : StrLess(by_file[j].key, by_file[k].key)}
    IN  [p \in 1..Len(by_file) |->
            by_file[CHOOSE k \in 1..Len(by_file) : Cardinality(below(k)) = p - 1].key]

\* one "### test_file" section of the Markdown report
MdSection(by_file, test_file) ==
    LET results == by_file[CHOOSE k \in 1..Len(by_file) : by_file[k].key = test_file].val
        count(value) == Cardinality({i \in 1..Len(results) : TestStatus[results[i].status] = value})
    IN  [test_file |-> test_file,
         passed |-> count(TestStatus.PASSED),
         failed |-> count(TestStatus.FAILED),
         rows |-> [i \in 1..Len(results) |->
                      [test_name |-> results[i].test_name,
                       status |-> TestStatus[results[i].status]]]]

\* ReportGenerator._build_markdown
build_markdown(s) ==
    LET passed_pct == success_rate(s)
        by_file == GroupByFile(s.test_results, 1, <<>>)
        files == sorted_keys(by_file)
    IN  [banner |-> IF FracGe(passed_pct, 80) THEN "PASS"
                    ELSE IF FracGe(passed_pct, 50) THEN "PARTIAL" ELSE "FAIL",
         passed_pct |-> passed_pct,
         sections |-> [k \in 1..Len(files) |-> MdSection(by_file, files[k])]]

(***************************************************************************)
(* The language-model client (src/ollama_agent.py).  The service either    *)
(* fails the request (requests raises ConnectionError or Timeout) or       *)
(* answers with a status and a body.  A body is its lines; a line is a     *)
(* JSON object, a JSON list, text that is no JSON, bytes that are no       *)
(* UTF-8, or blank.                                                        *)
(***************************************************************************)
s_ok == <<"o", "k">>

\* the least length generate_tests_ai.py takes for a test module
MinCodeLen == 100
s_code == [i \in 1..MinCodeLen |-> "x"]

\* the lines a body is made of; an absent key is <<>>
JsonObject(response, message) == [k |-> "object", response |-> response, message |-> message]
BodyLines ==
    {JsonObject(<<s_ok>>, <<>>), JsonObject(<<>>, <<[content |-> <<s_ok>>]>>),
     JsonObject(<<>>, <<[content |-> <<s_code>>]>>),
     [k |-> "list"], [k |-> "malformed"], [k |-> "badutf8"], [k |-> "blank"]}

\* json.loads of the bytes of one line
json_loads(line) ==
    CASE line.k \in {"object", "list"} -> [exc |-> "", val |-> line]
      [] line.k = "badutf8" -> [exc |-> "UnicodeDecodeError", val |-> line]
      [] OTHER -> [exc |-> "JSONDecodeError", val |-> line]

\* Response.json(): the whole body is one JSON document or the call raises
\* requests.exceptions.JSONDecodeError, which is a RequestException and a
\* json.JSONDecodeError
response_json(body) ==
    LET filled == SelectSeq(body, LAMBDA line : line.k # "blank")
    IN  IF Len(filled) = 1 /\ filled[1].k \in {"object", "list"}
        THEN [exc |-> "", val |-> filled[1]]
        ELSE [exc |-> "requests.JSONDecodeError", val |-> [k |-> "none"]]

\* data.get(key, ""), data being what a JSON document decoded to
DictGet(data, key) ==
    IF data.k # "object" THEN [exc |-> "AttributeError", val |-> <<>>]
    ELSE IF data[key] = <<>> THEN [exc |-> "", val |-> <<>>]
    ELSE [exc |-> "", val |-> data[key][1]]

\* the except clauses of generate_text and chat
RequestExceptions == {"ConnectionError", "Timeout", "requests.JSONDecodeError"}
JSONDecodeErrors == {"JSONDecodeError", "requests.JSONDecodeError"}

OllamaCaught(exc) == exc \in RequestExceptions \cup JSONDecodeErrors

\* what a call comes to: the str it returns, or the exception that leaves it
OllamaReturn(posted, exc, val) ==
    IF exc = "" THEN [posts |-> posted, raised |-> "", val |-> val]
    ELSE IF OllamaCaught(exc) THEN [posts |-> posted, raised |-> "", val |-> <<>>]
    ELSE [posts |-> posted, raised |-> exc, val |-> <<>>]

\* the loop over response.iter_lines(): the lines are bytes, blank ones are
\* skipped, the first exception ends the loop
RECURSIVE StreamLines(_, _, _)
StreamLines(body, i, full_response) ==
    IF i > Len(body) THEN [exc |-> "", val |-> full_response]
    ELSE IF body[i].k = "blank" THEN StreamLines(body, i + 1, full_response)
    ELSE LET data == json_loads(body[i])
             piece == DictGet(data.val, "response")
         IN  IF data.exc # "" THEN [exc |-> data.exc, val |-> <<>>]
             ELSE IF piece.exc # "" THEN [exc |-> piece.exc, val |-> <<>>]
             ELSE StreamLines(body, i + 1, full_response \o piece.val)

\* OllamaAgent.generate_text: one requests.post, then the body
generate_text(svc, stream) ==
    IF svc.k # "answer" THEN OllamaReturn(1, svc.k, <<>>)
    ELSE IF svc.status # 200 THEN OllamaReturn(1, "", <<>>)
    ELSE IF stream
    THEN LET full == StreamLines(svc.body, 1, <<>>)
         IN  OllamaReturn(1, full.exc, full.val)
    ELSE LET data == response_json(svc.body)
             text == DictGet(data.val, "response")
         IN  IF data.exc # "" THEN OllamaReturn(1, data.exc, <<>>)
             ELSE OllamaReturn(1, text.exc, text.val)

\* OllamaAgent.chat: data.get("message", {}).get("content", "")
chat(svc) ==
    IF svc.k # "answer" THEN OllamaReturn(1, svc.k, <<>>)
    ELSE IF svc.status # 200 THEN OllamaReturn(1, "", <<>>)
    ELSE LET data == response_json(svc.body)
             message == DictGet(data.val, "message")
         IN  IF data.exc # "" THEN OllamaReturn(1, data.exc, <<>>)
             ELSE IF message.exc # "" THEN OllamaReturn(1, message.exc, <<>>)
             ELSE IF message.val = <<>> THEN OllamaReturn(1, "", <<>>)
             ELSE OllamaReturn(1, "", IF message.val.content = <<>> THEN <<>>
                                      ELSE message.val.content[1])

(***************************************************************************)
(* The commands that ask the language model for a test module:             *)
(* generate_tests_ai.py main, and generate and full of run_agent.py.  A    *)
(* file of the working directory is "missing", "empty" or "text".          *)
(***************************************************************************)
FileStates == {"missing", "empty", "text"}

\* TestCaseGenerator.read_file: "" when the file cannot be opened
read_file(file) == IF file = "text" THEN <<"#">> ELSE <<>>

\* no request was sent to the model
NotAsked == [asked |-> FALSE, posts |-> 0, raised |-> "", val |-> <<>>]

\* TestCaseGenerator.generate_test_cases_chat
generate_test_cases_chat(constitution, spec, svc) ==
    IF read_file(constitution) = <<>> \/ read_file(spec) = <<>> THEN NotAsked
    ELSE LET answer == chat(svc)
         IN  [asked |-> TRUE, posts |-> answer.posts, raised |-> answer.raised,
              val |-> answer.val]

\* ACMSTestingAgent.generate_test_cases: the specification is looked for, the
\* constitution is optional, every exception becomes ""
generate_test_cases(files, svc) ==
    IF files.spec = "missing" THEN NotAsked
    ELSE LET got == generate_test_cases_chat(
                        IF files.constitution = "missing" THEN files.spec
                        ELSE files.constitution,
                        files.spec, svc)
         IN  IF got.raised # "" THEN [got EXCEPT !.raised = "", !.val = <<>>] ELSE got

\* what a command did: the steps it took in order, the files it wrote, the
\* last thing it told the user and its exit status
Command(name, llm, steps, written, said, exit) ==
    [name |-> name, llm |-> llm, steps |-> steps, written |-> written,
     said |-> said, exit |-> exit]

\* generate_tests_ai.py main
generate_tests_ai(files, svc) ==
    IF ~files.prerequisites
    THEN Command("generate_tests_ai", NotAsked, <<"check">>, {}, "error", 1)
    ELSE IF files.constitution = "missing" \/ files.spec = "missing"
    THEN Command("generate_tests_ai", NotAsked, <<"check">>, {}, "error", 1)
    ELSE LET got == generate_test_cases_chat(files.constitution, files.spec, svc)
         IN  IF got.raised # ""
             THEN Command("generate_tests_ai", got, <<"check", "generate_test_cases">>, {},
                          "traceback", 1)
             ELSE IF got.val = <<>> \/ Len(StripWs(got.val)) < MinCodeLen
             THEN Command("generate_tests_ai", got, <<"check", "generate_test_cases">>, {},
                          "error", 1)
             ELSE IF ~files.writable
             THEN Command("generate_tests_ai", got, <<"check", "generate_test_cases">>, {},
                          "traceback", 1)
             ELSE Command("generate_tests_ai", got, <<"check", "generate_test_cases">>,
                          {"test_code"}, "generated successfully", 0)

\* what generate and full share: the prerequisites, the mock data, the
\* request to the model, and save_test_code if test_code
GenerationSteps(name, files, svc) ==
    IF ~files.prerequisites
    THEN Command(name, NotAsked, <<"check">>, {}, "prerequisites not met", 1)
    ELSE LET got == generate_test_cases(files, svc)
             saved == got.val # <<>>
         IN  Command(name, got,
                     <<"check", "generate_mock_data", "generate_test_cases">>
                        \o (IF saved THEN <<"save_test_code">> ELSE <<>>),
                     {"mock_data"} \cup (IF saved /\ files.writable THEN {"test_code"} ELSE {}),
                     "", 0)

\* the generate command of run_agent.py
generate(files, svc) ==
    LET done == GenerationSteps("generate", files, svc)
    IN  IF done.exit # 0 THEN done ELSE [done EXCEPT !.said = "Generation complete!"]

\* the full command of run_agent.py, reported says whether run_tests
\* returned a summary that was given to generate_reports
full(files, svc, reported) ==
    LET done == GenerationSteps("full", files, svc)
    IN  IF done.exit # 0 THEN done
        ELSE [done EXCEPT !.steps = @ \o <<"run_tests">>
                                      \o (IF reported THEN <<"generate_reports">> ELSE <<>>),
                          !.said = "Complete workflow finished!"]

(***************************************************************************)
(* The generate command of src/main.py.  The file an option names is       *)
(* "missing", or has a suffix _load_spec does not know, or cannot be       *)
(* parsed, or holds a document; the stories option may be left out.        *)
(***************************************************************************)
OpenapiFiles == {"missing", "unsupported", "unparsable", "document"}
StoriesFiles == {"none", "missing", "text"}

\* CodeGenerator.generate_test_code: one test module is written
generate_test_code(test_cases) == {"test_module"}

\* CodeGenerator.generate_test_specification(spec_file)
generate_test_specification(test_cases) == {"test_specification.md"}

\* the command ended with this exit status, after these steps and files
Ended(exit, steps, written) == [exit |-> exit, steps |-> steps, written |-> written]

\* SpecParser(Path(openapi)): the exception of _load_spec, "" for none
load_spec(openapi_file, spec) ==
    LET top == validate_openapi_spec(spec)
        ex == ExtractEndpoints(spec.paths.entries, <<>>)
    IN  CASE openapi_file = "missing" -> [exc |-> "FileNotFoundError", perr |-> NoError, endpoints |-> <<>>]
          [] openapi_file = "unsupported" -> [exc |-> "ValueError", perr |-> NoError, endpoints |-> <<>>]
          [] openapi_file = "unparsable" -> [exc |-> "YAMLError", perr |-> NoError, endpoints |-> <<>>]
          [] OTHER ->
              IF Len(top) > 0
              THEN [exc |-> "ValueError", endpoints |-> <<>>,
                    perr |-> [stage |-> "validate_openapi_spec", errors |-> top]]
              ELSE IF Len(ex.errors) > 0
              THEN [exc |-> "ValueError", endpoints |-> ex.endpoints,
                    perr |-> [stage |-> "validate_endpoint", errors |-> ex.errors]]
              ELSE [exc |-> "", endpoints |-> ex.endpoints, perr |-> NoError]

\* StoryParser(Path(stories)), parsed being what parse_markdown makes of the
\* file's text
load_stories(stories_file, parsed) ==
    IF stories_file = "missing"
    THEN [exc |-> "FileNotFoundError", stories |-> <<>>, errors |-> <<>>]
    ELSE LET errors == IF Len(parsed) > 0 THEN validate_user_stories(parsed) ELSE <<>>
         IN  [exc |-> IF Len(errors) > 0 THEN "ValueError" ELSE "",
              stories |-> parsed, errors |-> errors]

\* no StoryParser was built
NotTold == [exc |-> "", stories |-> <<>>, errors |-> <<>>]

\* a generate that builds the TestGenerator and calls generate_all_tests
\* before it looks at the stories
main_generate_stories_last(openapi_file, stories_file, parser, told, test_cases, spec_only, code_only) ==
    IF parser.exc # ""
    THEN [cmd |-> Ended(1, <<"SpecParser">>, {}), told |-> <<>>, test_cases |-> <<>>]
    ELSE IF stories_file # "none" /\ told.exc # ""
    THEN [cmd |-> Ended(1, <<"SpecParser", "generate_all_tests", "StoryParser">>, {}),
          told |-> <<told>>, test_cases |-> <<test_cases>>]
    ELSE [cmd |-> Ended(0, <<"SpecParser", "generate_all_tests", "StoryParser">>,
                        (IF spec_only THEN {} ELSE generate_test_code(test_cases))
                        \cup (IF code_only THEN {}
                              ELSE generate_test_specification(test_cases))),
          told |-> IF stories_file = "none" THEN <<>> ELSE <<told>>,
          test_cases |-> <<test_cases>>]

\* generate, given what SpecParser(Path(openapi)), StoryParser(Path(stories))
\* and generate_all_tests() come to when they are reached: click refuses an
\* option that names no file; then the SpecParser, the StoryParser if
\* stories, generate_all_tests, the test code if not spec_only, the
\* specification document if not code_only; every exception ends in
\* sys.exit(1)
main_generate(openapi_file, stories_file, parser, told, test_cases, spec_only, code_only) ==
    IF openapi_file = "missing" \/ stories_file = "missing"
    THEN [cmd |-> Ended(2, <<>>, {}), told |-> <<>>, test_cases |-> <<>>]
    ELSE IF parser.exc # ""
    THEN [cmd |-> Ended(1, <<"SpecParser">>, {}), told |-> <<>>, test_cases |-> <<>>]
    ELSE IF stories_file # "none" /\ told.exc # ""
    THEN [cmd |-> Ended(1, <<"SpecParser", "StoryParser">>, {}), told |-> <<told>>,
          test_cases |-> <<>>]
    ELSE [cmd |-> Ended(0, <<"SpecParser">>
                           \o (IF stories_file = "none" THEN <<>> ELSE <<"StoryParser">>)
                           \o <<"generate_all_tests">>
                           \o (IF spec_only THEN <<>> ELSE <<"generate_test_code">>)
                           \o (IF code_only THEN <<>> ELSE <<"generate_test_specification">>),
                        (IF spec_only THEN {} ELSE generate_test_code(test_cases))
                        \cup (IF code_only THEN {}
                              ELSE generate_test_specification(test_cases))),
          told |-> IF stories_file = "none" THEN <<>> ELSE <<told>>,
          test_cases |-> <<test_cases>>]

(***************************************************************************)
(* The mock API server (scripts/mock_api_server.py): the agents dict, keyed *)
(* by agent id, and its handlers. A handler gives the status code of its    *)
(* response and the agents dict as it leaves it; a JSON body is <<>> when   *)
(* get_json() gives None or an empty object, else <<the object>>, a record  *)
(* of the fields it has; null and the empty string are both <<>>.           *)
(***************************************************************************)
s_agent_ == <<"a","g","e","n","t","-">>

\* f"agent-{agent_counter}"
AgentId(n) == s_agent_ \o StrNat(n)

\* the agents the server starts with
MockAgents ==
    [id \in {AgentId(123), AgentId(456)} |->
        IF id = AgentId(123)
        THEN [id |-> id, name |-> <<"J","o","h","n"," ","D","o","e">>, email |-> <<"j","o","h","n","@","e","x","a","m","p","l","e",".","c","o","m">>, commissionTier |-> <<10>>,
              status |-> "active", createdDate |-> "2023-01-01T00:00:00Z",
              lastModifiedDate |-> "2023-01-01T00:00:00Z"]
        ELSE [id |-> id, name |-> <<"J","a","n","e"," ","S","m","i","t","h">>, email |-> <<"j","a","n","e","@","e","x","a","m","p","l","e",".","c","o","m">>, commissionTier |-> <<15>>,
              status |-> "active", createdDate |-> "2023-01-02T00:00:00Z",
              lastModifiedDate |-> "2023-01-02T00:00:00Z"]]

\* check_auth: the Authorization header, "" when there is none
check_auth(auth_header) == auth_header = "Bearer valid-token-123"

\* what a handler answers
Response(status, agents_after, counter_after) ==
    [status |-> status, agents |-> agents_after, agent_counter |-> counter_after]

\* not name or not name.strip()
NameIsEmpty(name) == Len(name) = 0 \/ Len(StripWs(name)) = 0

\* not email or '@' not in email
EmailIsInvalid(email) == Len(email) = 0 \/ ~Contains(<<"@">>, email)

\* commission_tier is None or commission_tier < 0 or commission_tier > 100
TierIsInvalid(commission_tier) ==
    commission_tier = <<>> \/ commission_tier[1] < 0 \/ commission_tier[1] > 100

\* data.get(key): None when the key is absent
BodyGet(data, key) == IF key \in DOMAIN data THEN data[key] ELSE <<>>

\* GET /agents
list_agents(agents, counter, auth_header) ==
    IF ~check_auth(auth_header) THEN Response(401, agents, counter)
    ELSE Response(200, agents, counter)

\* POST /agents
create_agent(agents, counter, auth_header, body) ==
    IF ~check_auth(auth_header) THEN Response(401, agents, counter)
    ELSE IF body = <<>> THEN Response(400, agents, counter)
    ELSE LET data == body[1]
             name == BodyGet(data, "name")
             email == BodyGet(data, "email")
             commission_tier == BodyGet(data, "commissionTier")
             agent_id == AgentId(counter + 1)
             new_agent == [id |-> agent_id, name |-> StripWs(name), email |-> StripWs(email),
                           commissionTier |-> commission_tier, status |-> "active",
                           createdDate |-> "2023-01-01T00:00:00Z",
                           lastModifiedDate |-> "2023-01-01T00:00:00Z"]
         IN  IF NameIsEmpty(name) \/ EmailIsInvalid(email) \/ TierIsInvalid(commission_tier)
             THEN Response(400, agents, counter)
             ELSE Response(201,
                           [id \in DOMAIN agents \cup {agent_id} |->
                               IF id = agent_id THEN new_agent ELSE agents[id]],
                           counter + 1)

\* GET /agents/<agent_id>
get_agent(agents, counter, auth_header, agent_id) ==
    IF ~check_auth(auth_header) THEN Response(401, agents, counter)
    ELSE IF agent_id \notin DOMAIN agents THEN Response(404, agents, counter)
    ELSE Response(200, agents, counter)

\* PUT /agents/<agent_id>: agent is the stored dict itself, so each field is
\* written as soon as it has passed its own test
update_agent(agents, counter, auth_header, agent_id, body) ==
    IF ~check_auth(auth_header) THEN Response(401, agents, counter)
    ELSE IF agent_id \notin DOMAIN agents THEN Response(404, agents, counter)
    ELSE IF body = <<>> THEN Response(400, agents, counter)
    ELSE LET data == body[1]
             agent == agents[agent_id]
             named == IF "name" \in DOMAIN data
                      THEN [agent EXCEPT !.name = StripWs(data.name)] ELSE agent
             mailed == IF "email" \in DOMAIN data
                       THEN [named EXCEPT !.email = StripWs(data.email)] ELSE named
             tiered == IF "commissionTier" \in DOMAIN data
                       THEN [mailed EXCEPT !.commissionTier = data.commissionTier] ELSE mailed
             stated == IF "status" \in DOMAIN data
                       THEN [tiered EXCEPT !.status = data.status] ELSE tiered
             With(a) == [agents EXCEPT ![agent_id] = a]
         IN  IF "name" \in DOMAIN data /\ NameIsEmpty(data.name)
             THEN Response(400, agents, counter)
             ELSE IF "email" \in DOMAIN data /\ EmailIsInvalid(data.email)
             THEN Response(400, With(named), counter)
             ELSE IF "commissionTier" \in DOMAIN data /\ TierIsInvalid(data.commissionTier)
             THEN Response(400, With(mailed), counter)
             ELSE IF "status" \in DOMAIN data /\ data.status \notin {"active", "inactive"}
             THEN Response(400, With(tiered), counter)
             ELSE Response(200,
                           With([stated EXCEPT !.lastModifiedDate = "2023-01-02T00:00:00Z"]),
                           counter)

\* DELETE /agents/<agent_id>
delete_agent(agents, counter, auth_header, agent_id) ==
    IF ~check_auth(auth_header) THEN Response(401, agents, counter)
    ELSE IF agent_id \notin DOMAIN agents THEN Response(404, agents, counter)
    ELSE Response(204, [id \in DOMAIN agents \ {agent_id} |-> agents[id]], counter)

(***************************************************************************)
(* The operations, as a caller may invoke them once the parser exists.     *)
(***************************************************************************)
NoRet == [op |-> "none"]

FmtIdle == /\ fin = <<>>
           /\ fout = <<>>

\* generate_all_tests()
GenerateAllTests ==
    /\ pstate = "ok"
    /\ Len(returned) < MaxRuns
    /\ LET fresh == ResetTestCases(lists, self_tc)
           result == GenerateLoop(get_endpoints, fresh.lists[fresh.self_tc])
       IN  /\ lists' = [fresh.lists EXCEPT ![fresh.self_tc] = result]
           /\ self_tc' = fresh.self_tc
           /\ returned' = Append(returned, fresh.self_tc)
           /\ ret' = [op |-> "generate_all_tests", list |-> fresh.self_tc]
    /\ UNCHANGED <<doc, pstate, perr, endpoints, fin, fout>>
    /\ UNCHANGED otherVars

\* get_endpoints()
GetEndpoints ==
    /\ pstate = "ok"
    /\ ret' = [op |-> "get_endpoints", value |-> get_endpoints]
    /\ UNCHANGED <<doc, pstate, perr, endpoints, lists, self_tc, returned, fin, fout>>
    /\ UNCHANGED otherVars

LookupPaths == {PathName(i) : i \in 1..(MaxPaths + 1)}
LookupMethods == {<<"g","e","t">>, <<"P","o","s","t">>, <<"P","U","T">>}

\* get_endpoint_by_path(path, method)
GetEndpointByPath ==
    /\ pstate = "ok"
    /\ \E path \in LookupPaths, method \in LookupMethods :
          ret' = [op |-> "get_endpoint_by_path", path |-> path, method |-> method,
                  value |-> get_endpoint_by_path(path, method)]
    /\ UNCHANGED <<doc, pstate, perr, endpoints, lists, self_tc, returned, fin, fout>>
    /\ UNCHANGED otherVars

\* get_parameters_for_endpoint(endpoint), on an endpoint of get_endpoints()
GetParametersForEndpoint ==
    /\ pstate = "ok"
    /\ \E i \in 1..Len(endpoints) :
          LET parameters == get_parameters_for_endpoint(endpoints[i])
          IN  /\ Len(parameters) <= MaxParams
              /\ endpoints' = [endpoints EXCEPT ![i].parameters = parameters]
              /\ ret' = [op |-> "get_parameters_for_endpoint", index |-> i,
                         value |-> parameters]
    /\ UNCHANGED <<doc, pstate, perr, lists, self_tc, returned, fin, fout>>
    /\ UNCHANGED otherVars

\* get_response_schemas(endpoint), on an endpoint of get_endpoints()
GetResponseSchemas ==
    /\ pstate = "ok"
    /\ \E i \in 1..Len(endpoints) :
          ret' = [op |-> "get_response_schemas", index |-> i,
                  value |-> get_response_schemas(endpoints[i])]
    /\ UNCHANGED <<doc, pstate, perr, endpoints, lists, self_tc, returned, fin, fout>>
    /\ UNCHANGED otherVars

Init ==
    /\ doc \in Docs
    /\ pstate = "new"
    /\ perr = NoError
    /\ endpoints = <<>>
    /\ lists = << <<>> >>
    /\ self_tc = 1
    /\ returned = <<>>
    /\ ret = NoRet
    /\ FmtIdle
    /\ OthersIdle

\* The parser and the generator: the operations that change the program's
\* state.  The read-only accessors change none of it and are left to
\* SpecParser.
Next ==
    \/ LoadSpec
    \/ GenerateAllTests
    \/ GetParametersForEndpoint

Spec == Init /\ [][Next]_vars

\* The parser and its accessors.
NextParser ==
    \/ LoadSpec
    \/ GetEndpoints
    \/ GetEndpointByPath
    \/ GetParametersForEndpoint
    \/ GetResponseSchemas

SpecParser == Init /\ [][NextParser]_vars

(***************************************************************************)
(* format_test_name on its own: the arguments range over short strings of  *)
(* an alphabet with a letter of each case, a digit, the underscore and     *)
(* characters outside [A-Za-z0-9_], and over the documented example.       *)
(***************************************************************************)
FmtAlphabet == {"t", "e", "s", "T", "1", "_", "-"}
FmtScenarioAlphabet == {"p", " "}
s_Create_Agent == <<"C","r","e","a","t","e"," ","A","g","e","n","t">>
s_Happy_Path == <<"H","a","p","p","y"," ","P","a","t","h">>

FmtInputs ==
    {<<b, sc>> : b \in SeqsUpTo(FmtAlphabet, MaxBaseLen),
                 sc \in SeqsUpTo(FmtScenarioAlphabet, MaxScenarioLen)}
    \cup {<<s_Create_Agent, s_happy_path>>, <<s_Create_Agent, s_Happy_Path>>}

InitFmt ==
    /\ doc = [openapi |-> OpenapiOk, info |-> InfoOk, paths |-> PathsOf(<<>>)]
    /\ pstate = "new"
    /\ perr = NoError
    /\ endpoints = <<>>
    /\ lists = << <<>> >>
    /\ self_tc = 1
    /\ returned = <<>>
    /\ ret = NoRet
    /\ fin \in FmtInputs
    /\ fout = <<>>
    /\ OthersIdle

\* a call format_test_name(base_name, scenario)
FormatTestName ==
    /\ fin # <<>>
    /\ fout = <<>>
    /\ fout' = <<format_test_name(fin[1], fin[2])>>
    /\ UNCHANGED <<doc, pstate, perr, endpoints, lists, self_tc, returned, ret, fin>>
    /\ UNCHANGED otherVars

NextFmt == FormatTestName

SpecFmt == InitFmt /\ [][NextFmt]_vars

(***************************************************************************)
(* The stories files: up to MaxStoryLines lines, each ended by a newline,  *)
(* among a story header of each spelling, the documented criterion, a      *)
(* short criterion in lower case, a line of prose and a header without a   *)
(* title.                                                                  *)
(***************************************************************************)
StoryLines ==
    [header |-> <<"#","#"," ","S","t","o","r","y"," ","1",":"," ","C","r","e","a","t","e"," ","A","g","e","n","t">>,
     criterion |-> <<"1","."," ","*","*","G","i","v","e","n","*","*"," ","a"," ","v","a","l","i","d"," ","p","a","y","l","o","a","d",","," ","*","*","W","h","e","n","*","*"," ","P","O","S","T"," ","/","a","g","e","n","t","s"," ","i","s"," ","c","a","l","l","e","d",","," ","*","*","T","h","e","n","*","*"," ","a"," ","2","0","1"," ","i","s"," ","r","e","t","u","r","n","e","d",".">>,
     user_header |-> <<"#","#"," ","U","s","e","r"," ","S","t","o","r","y"," ","2",":"," ","B">>,
     short_criterion |-> <<"2","."," ","*","*","g","i","v","e","n","*","*"," ","x",","," ","*","*","w","h","e","n","*","*"," ","y",","," ","*","*","t","h","e","n","*","*"," ","z","z">>,
     prose |-> <<"A","s"," ","a"," ","u","s","e","r">>,
     untitled_header |-> <<"#","#"," ","S","t","o","r","y"," ","3",":">>]

RECURSIVE JoinLines(_)
JoinLines(ls) == IF Len(ls) = 0 THEN <<>> ELSE ls[1] \o <<"\n">> \o JoinLines(Tail(ls))

StoryContents ==
    {JoinLines(ls) : ls \in SeqsUpTo({StoryLines[n] : n \in DOMAIN StoryLines}, MaxStoryLines)}

\* no SpecParser, TestGenerator or format_test_name call is under way
GeneratorIdle ==
    /\ doc = [openapi |-> OpenapiOk, info |-> InfoOk, paths |-> PathsOf(<<>>)]
    /\ pstate = "new"
    /\ perr = NoError
    /\ endpoints = <<>>
    /\ lists = << <<>> >>
    /\ self_tc = 1
    /\ returned = <<>>
    /\ ret = NoRet
    /\ FmtIdle

InitStories ==
    /\ GeneratorIdle
    /\ RestIdle
    /\ PytestIdle
    /\ RunnerIdle
    /\ content \in StoryContents
    /\ sstate = "new"
    /\ stories = <<>>
    /\ serr = <<>>

\* StoryParser(stories_file) on an existing file: _load_stories
LoadStories ==
    /\ sstate = "new"
    /\ \E parsed \in {parse_markdown(content)} :
          \E errors \in {IF Len(parsed) > 0 THEN validate_user_stories(parsed) ELSE <<>>} :
             /\ stories' = parsed
             /\ serr' = errors
             /\ sstate' = IF Len(errors) > 0 THEN "error" ELSE "ok"
    /\ UNCHANGED <<genVars, restVars, content, pytestVars, runVars>>

NextStories == LoadStories

SpecStories == InitStories /\ [][NextStories]_vars

(***************************************************************************)
(* The texts given to PytestResultParser: up to MaxOutputLines lines among *)
(* a result line of each status (with a duration in seconds, one in        *)
(* milliseconds, a coloured one with only a progress bracket, one with a   *)
(* duration and a progress bracket, one with neither), a line of error     *)
(* text, a separator, a blank line and a line of the short summary.        *)
(***************************************************************************)
OutputLines ==
    [passed_seconds |-> <<"t","e","s","t","s","/","t","e","s","t","_","a","g","e","n","t","s",".","p","y",":",":","t","e","s","t","_","c","r","e","a","t","e"," ","P","A","S","S","E","D"," ","[","0",".","1","2","s","]">>,
     failed_millis |-> <<"a",".","p","y",":",":","t","1"," ","F","A","I","L","E","D"," ","[","1","0","0","m","s","]">>,
     passed_percent |-> <<"a",".","p","y",":",":","t","2"," ","ESC","[","3","2","m","P","A","S","S","E","D","ESC","[","0","m"," ","["," ","5","0","%","]">>,
     error_both |-> <<"a",".","p","y",":",":","t","3"," ","E","R","R","O","R"," ","[","0",".","1","s","]"," ","[","1","0","0","%","]">>,
     skipped_bare |-> <<"a",".","p","y",":",":","t","4"," ","S","K","I","P","P","E","D">>,
     text |-> <<"b","o","o","m">>,
     separator |-> <<"=","=","=","=">>,
     blank |-> <<>>,
     summary |-> <<"F","A","I","L","E","D"," ","a",".","p","y",":",":","t","1"," ","-"," ","b","o","o","m">>]

RECURSIVE JoinOutput(_)
JoinOutput(ls) == IF Len(ls) = 0 THEN <<>>
                  ELSE IF Len(ls) = 1 THEN ls[1]
                  ELSE ls[1] \o <<"\n">> \o JoinOutput(Tail(ls))

Outputs ==
    {JoinOutput(ls) : ls \in SeqsUpTo({OutputLines[n] : n \in DOMAIN OutputLines},
                                      MaxOutputLines)}

InitPytest ==
    /\ GeneratorIdle
    /\ RestIdle
    /\ StoriesIdle
    /\ RunnerIdle
    /\ output \in Outputs
    /\ presults = <<>>

\* PytestResultParser(output).parse()
Parse ==
    /\ presults = <<>>
    /\ presults' = <<parse(output)>>
    /\ UNCHANGED <<genVars, restVars, storyVars, output, runVars>>

NextPytest == Parse

SpecPytest == InitPytest /\ [][NextPytest]_vars

\* the lines pytest prints in a TestRunner run
RunLines ==
    {OutputLines.passed_seconds, OutputLines.failed_millis, OutputLines.skipped_bare,
     OutputLines.error_both,
     <<"a",".","p","y",":",":","t","_","\"","q","\""," ","P","A","S","S","E","D">>}

RunOutputs == {JoinOutput(ls) : ls \in SeqsUpTo(RunLines, MaxRunLines)}

InitRun ==
    /\ GeneratorIdle
    /\ RestIdle
    /\ StoriesIdle
    /\ PytestIdle
    /\ engine_out \in RunOutputs
    /\ RunnerFresh

\* the two readings of the clock of one call
Clock == {tt \in Times \X Times : tt[1] <= tt[2]}

\* what a first call of a TestRunner by a caller of its own leaves: the
\* summary it returns is self.summary
Ran(op, env, ran) ==
    /\ summary' = ran.summary
    /\ called' = [op |-> op, env |-> env, raised |-> ran.exc]
    /\ UNCHANGED <<genVars, restVars, storyVars, pytestVars, engine_out, sdict, reports, json_text, loaded>>

\* no TestRunner method was called yet and nothing was reported (each run
\* method starts from a new ExecutionSummary, whatever was run before)
NotRun ==
    /\ called.op = "none"
    /\ sdict = <<>>
    /\ reports = NoReports
    /\ json_text = <<>>

\* TestRunner.run_all_tests()
RunAllTests ==
    /\ NotRun
    /\ \E env \in Engines \cup {"nofiles"}, tt \in Clock :
          \E ran \in {run_all_tests(env # "nofiles", env, engine_out,
                                    DateTime(tt[1]), DateTime(tt[2]))} :
             Ran("run_all_tests", env, ran)

\* TestRunner.run_test_file(test_file)
RunTestFile ==
    /\ NotRun
    /\ \E env \in Engines \cup {"nofiles"}, tt \in Clock :
          \E ran \in {run_test_file(env # "nofiles", env, engine_out,
                                    DateTime(tt[1]), DateTime(tt[2]))} :
             Ran("run_test_file", env, ran)

\* TestRunner.run_test_by_pattern(pattern)
RunTestByPattern ==
    /\ NotRun
    /\ \E env \in Engines, tt \in Clock :
          \E ran \in {run_test_by_pattern(env, engine_out, DateTime(tt[1]), DateTime(tt[2]))} :
             Ran("run_test_by_pattern", env, ran)

\* the run command (and the last two steps of full) on its new agent, in an
\* output directory where one of the report files at most cannot be written:
\* summary = agent.run_tests(test_pattern=pattern), then
\* agent.generate_reports(summary) if summary
RunAndReport(pattern, env, tt, unwritable) ==
    \E ran \in {IF pattern
                THEN run_test_by_pattern(env, engine_out, DateTime(tt[1]), DateTime(tt[2]))
                ELSE run_all_tests(env # "nofiles", env, engine_out,
                                   DateTime(tt[1]), DateTime(tt[2]))} :
       \E ret_dict \in {run_tests(ran)} :
          \E made \in {IF ret_dict.empty
                       THEN [html |-> FALSE, md |-> FALSE, json |-> <<>>, warnings |-> 0]
                       ELSE generate_reports(ret_dict.d[1], unwritable)} :
             /\ summary' = ran.summary
             /\ called' = [op |-> "run", env |-> env, raised |-> ""]
             /\ sdict' = <<ret_dict>>
             /\ reports' = [html |-> made.html, md |-> made.md, failed |-> unwritable,
                            warnings |-> made.warnings]
             /\ json_text' = made.json

RunCommand ==
    /\ called.op = "none"
    /\ json_text = <<>>
    /\ reports = NoReports
    /\ \E pattern \in BOOLEAN, env \in Engines \cup {"nofiles"}, tt \in Clock,
          unwritable \in {{}} \cup {{f} : f \in Formats} :
          /\ (pattern => env # "nofiles")
          /\ RunAndReport(pattern, env, tt, unwritable)
    /\ UNCHANGED <<genVars, restVars, storyVars, pytestVars, engine_out, loaded>>

\* ReportGenerator(summary).generate_json_report(json_file) by a caller that
\* holds the runner's summary
GenerateJsonReport ==
    /\ sdict = <<>>
    /\ json_text = <<>>
    /\ reports = NoReports
    /\ called.raised \in {"none", ""}
    /\ \E unwritable \in {{}, {"json"}} :
          /\ json_text' = generate_json_report(summary, unwritable).text
          /\ reports' = [reports EXCEPT !.failed = unwritable]
    /\ UNCHANGED <<genVars, restVars, storyVars, pytestVars, engine_out, summary, called, sdict, loaded>>

\* json.load of test_report.json
LoadJsonReport ==
    /\ json_text # <<>>
    /\ loaded = <<>>
    /\ loaded' = <<JsonLoad(json_text[1])>>
    /\ UNCHANGED <<genVars, restVars, storyVars, pytestVars, engine_out, summary, called, sdict, reports,
                   json_text>>

NextRun ==
    \/ RunAllTests
    \/ RunTestFile
    \/ RunTestByPattern
    \/ RunCommand
    \/ GenerateJsonReport
    \/ LoadJsonReport

SpecRun == InitRun /\ [][NextRun]_vars

(***************************************************************************)
(* The report generator on its own: a ReportGenerator is given a summary,  *)
(* whose counters are whatever its maker set, and builds the two texts.    *)
(***************************************************************************)
MaxReportResults == 2

ReportFiles == {<<"a",".","p","y">>, <<"a","b",".","p","y">>, <<"B",".","p","y">>}

ReportResults ==
    {TestResult(<<"t">>, f, st, <<0, 1>>) : f \in ReportFiles, st \in {"PASSED", "FAILED", "ERROR"}}

\* passed_tests and total_tests of the summaries: 0 of 0, 80.0, 79.9, 50.0,
\* 49.9 and 100.0 per cent
Rates == {<<0, 0>>, <<4, 5>>, <<799, 1000>>, <<1, 2>>, <<499, 1000>>, <<1, 1>>}

ReportSummaries ==
    {[ExecutionSummary(<<>>) EXCEPT !.test_results = rs,
                                    !.passed_tests = c[1], !.total_tests = c[2]] :
        rs \in SeqsUpTo(ReportResults, MaxReportResults), c \in Rates}
    \cup {update_summary([ExecutionSummary(<<>>) EXCEPT !.test_results = rs]) :
             rs \in SeqsUpTo(ReportResults, MaxReportResults)}

InitReport ==
    /\ GeneratorIdle
    /\ StoriesIdle
    /\ PytestIdle
    /\ RunnerIdle
    /\ OllamaIdle
    /\ acmd = <<>>
    /\ mcmd = <<>>
    /\ CallsIdle
    /\ MockIdle
    /\ rsummary \in ReportSummaries
    /\ built_html = <<>>
    /\ built_md = <<>>

\* ReportGenerator._build_html
BuildHtml ==
    /\ built_html = <<>>
    /\ built_html' = <<build_html(rsummary)>>
    /\ UNCHANGED <<genVars, storyVars, pytestVars, runVars, ollamaVars, acmd, mcmd, rsummary, built_md, lateVars>>

\* ReportGenerator._build_markdown
BuildMarkdown ==
    /\ built_md = <<>>
    /\ built_md' = <<build_markdown(rsummary)>>
    /\ UNCHANGED <<genVars, storyVars, pytestVars, runVars, ollamaVars, acmd, mcmd, rsummary, built_html, lateVars>>

NextReport == BuildHtml \/ BuildMarkdown

SpecReport == InitReport /\ [][NextReport]_vars

(***************************************************************************)
(* The language-model client on its own: calls of generate_text and chat   *)
(* against a service that behaves in one way.                              *)
(***************************************************************************)
MaxBodyLines == 2
MaxCalls == 2

Services ==
    {[k |-> "ConnectionError"], [k |-> "Timeout"]}
    \cup {[k |-> "answer", status |-> st, body |-> body] :
             st \in {200, 500}, body \in SeqsUpTo(BodyLines, MaxBodyLines)}

InitOllama ==
    /\ GeneratorIdle
    /\ StoriesIdle
    /\ PytestIdle
    /\ RunnerIdle
    /\ ReportIdle
    /\ acmd = <<>>
    /\ mcmd = <<>>
    /\ CallsIdle
    /\ MockIdle
    /\ service \in Services
    /\ oret = <<>>
    /\ ncalls = 0
    /\ posts = 0

\* one call, its outcome recorded
Called(op, stream, r) ==
    /\ oret' = <<[op |-> op, stream |-> stream, raised |-> r.raised, val |-> r.val]>>
    /\ ncalls' = ncalls + 1
    /\ posts' = posts + r.posts
    /\ UNCHANGED <<genVars, storyVars, pytestVars, runVars, reportVars, acmd, mcmd, service, lateVars>>

GenerateText ==
    /\ ncalls < MaxCalls
    /\ \E stream \in BOOLEAN : Called("generate_text", stream, generate_text(service, stream))

Chat ==
    /\ ncalls < MaxCalls
    /\ Called("chat", FALSE, chat(service))

NextOllama == GenerateText \/ Chat

SpecOllama == InitOllama /\ [][NextOllama]_vars

(***************************************************************************)
(* The commands that ask the model, each run once in a working directory   *)
(* against a service that behaves in one way.                              *)
(***************************************************************************)
AgentServices ==
    {svc \in Services : svc.k = "answer" => Len(svc.body) <= 1}

AgentOutputs == {<<>>, JoinOutput(<<OutputLines.failed_millis>>)}

WorkingDirs ==
    [prerequisites : BOOLEAN, constitution : FileStates, spec : FileStates, writable : BOOLEAN]

InitAgent ==
    /\ GeneratorIdle
    /\ StoriesIdle
    /\ PytestIdle
    /\ ReportIdle
    /\ engine_out \in AgentOutputs
    /\ RunnerFresh
    /\ service \in AgentServices
    /\ oret = <<>>
    /\ ncalls = 0
    /\ posts = 0
    /\ acmd = <<>>
    /\ mcmd = <<>>
    /\ CallsIdle
    /\ MockIdle

\* the command is over; the requests it sent are counted
Commanded(done) ==
    /\ acmd' = <<done>>
    /\ ncalls' = ncalls + (IF done.llm.asked THEN 1 ELSE 0)
    /\ posts' = posts + done.llm.posts
    /\ UNCHANGED <<genVars, storyVars, pytestVars, reportVars, mcmd, lateVars, engine_out, loaded, service,
                   oret>>

\* python generate_tests_ai.py
GenerateTestsAi ==
    /\ acmd = <<>>
    /\ \E files \in WorkingDirs :
          \E done \in {generate_tests_ai(files, service)} :
             /\ Commanded(done)
             /\ UNCHANGED <<summary, called, sdict, reports, json_text>>

\* python run_agent.py generate
Generate ==
    /\ acmd = <<>>
    /\ \E files \in WorkingDirs :
          \E done \in {generate(files, service)} :
             /\ Commanded(done)
             /\ UNCHANGED <<summary, called, sdict, reports, json_text>>

\* python run_agent.py full: the tests of the output directory are run and
\* reported as the run command does, when the prerequisites were met
Full ==
    /\ acmd = <<>>
    /\ \E files \in WorkingDirs, env \in Engines \cup {"nofiles"} :
          IF ~files.prerequisites
          THEN \E done \in {full(files, service, FALSE)} :
                  /\ Commanded(done)
                  /\ UNCHANGED <<summary, called, sdict, reports, json_text>>
          ELSE /\ RunAndReport(FALSE, env, <<0, 1>>, {})
               /\ \E done \in {full(files, service, ~sdict'[1].empty)} : Commanded(done)

NextAgent == GenerateTestsAi \/ Generate \/ Full

SpecAgent == InitAgent /\ [][NextAgent]_vars

(***************************************************************************)
(* The generate command of src/main.py, run once on an OpenAPI file and a  *)
(* stories file.                                                           *)
(***************************************************************************)
MainDocs == DocsExample \cup DocsTopLevel

MainStories ==
    {JoinLines(ls) : ls \in {<<StoryLines.header, StoryLines.criterion>>,
                             <<StoryLines.header>>,
                             <<StoryLines.prose>>,
                             <<StoryLines.header, StoryLines.criterion, StoryLines.user_header>>}}

InitMain ==
    /\ doc \in MainDocs
    /\ pstate = "new"
    /\ perr = NoError
    /\ endpoints = <<>>
    /\ lists = << <<>> >>
    /\ self_tc = 1
    /\ returned = <<>>
    /\ ret = NoRet
    /\ FmtIdle
    /\ content \in MainStories
    /\ sstate = "new"
    /\ stories = <<>>
    /\ serr = <<>>
    /\ PytestIdle
    /\ CallsIdle
    /\ MockIdle
    /\ RunnerIdle
    /\ ReportIdle
    /\ OllamaIdle
    /\ acmd = <<>>
    /\ mcmd = <<>>

\* python -m src.main generate --openapi ... [--stories ...]
MainGenerate ==
    /\ mcmd = <<>>
    /\ \E openapi_file \in OpenapiFiles, stories_file \in StoriesFiles,
          spec_only \in BOOLEAN, code_only \in BOOLEAN :
          \E parser \in {load_spec(openapi_file, doc)} :
          \E parsed \in {IF parser.exc = "" /\ stories_file = "text"
                         THEN parse_markdown(content) ELSE <<>>} :
          \E told \in {IF parser.exc = "" /\ stories_file # "none"
                       THEN load_stories(stories_file, parsed) ELSE NotTold} :
          \E test_cases \in {IF parser.exc = "" THEN GenerateLoop(parser.endpoints, <<>>)
                             ELSE <<>>} :
          \E done \in {main_generate(openapi_file, stories_file, parser, told, test_cases,
                                     spec_only, code_only)} :
             /\ mcmd' = <<[openapi_file |-> openapi_file, stories_file |-> stories_file,
                           exit |-> done.cmd.exit, steps |-> done.cmd.steps,
                           written |-> done.cmd.written]>>
             /\ IF Len(done.cmd.steps) = 0
                THEN UNCHANGED <<pstate, perr, endpoints>>
                ELSE /\ pstate' = IF parser.exc = "" THEN "ok" ELSE "error"
                     /\ perr' = parser.perr
                     /\ endpoints' = parser.endpoints
             /\ IF done.told = <<>>
                THEN UNCHANGED <<sstate, stories, serr>>
                ELSE /\ sstate' = IF done.told[1].exc = "" THEN "ok" ELSE "error"
                     /\ stories' = done.told[1].stories
                     /\ serr' = done.told[1].errors
             /\ IF done.test_cases = <<>>
                THEN UNCHANGED <<lists, self_tc, returned, ret>>
                ELSE \E fresh \in {ResetTestCases(lists, self_tc)} :
                        /\ lists' = [fresh.lists EXCEPT ![fresh.self_tc] = done.test_cases[1]]
                        /\ self_tc' = fresh.self_tc
                        /\ returned' = Append(returned, fresh.self_tc)
                        /\ ret' = [op |-> "generate_all_tests", list |-> fresh.self_tc]
    /\ UNCHANGED <<doc, fin, fout, content, pytestVars, runVars, reportVars, ollamaVars, acmd,
                   lateVars>>

NextMain == MainGenerate

SpecMain == InitMain /\ [][NextMain]_vars

(***************************************************************************)
(* One TestRunner called several times: up to MaxRunCalls calls of its run  *)
(* methods, each with the test directory as it is then (missing, holding a  *)
(* test file and a conftest, holding no test file), a pattern or a file     *)
(* name, an engine and the text it prints. The clock reads 0 when a call    *)
(* starts and 1 when it ends. The inputs of the last call only are kept.    *)
(***************************************************************************)
MaxRunCalls == 2

TestDirs == {<<>>, <<{<<"t","e","s","t","_","a",".","p","y">>, <<"c","o","n","f","t","e","s","t",".","p","y">>}>>, <<{<<"h","e","l","p","e","r",".","p","y">>}>>}

TestPatterns == {<<>>, <<<<"a">>>>, <<<<"z","z">>>>}

TestFileNames == {<<"t","e","s","t","_","a",".","p","y">>, <<"t","e","s","t","_","b",".","p","y">>}

CallOutputs ==
    {<<>>, OutputLines.passed_seconds,
     JoinOutput(<<OutputLines.failed_millis, OutputLines.error_both>>)}

\* what the engine does in a call that reaches it; in a call that does not,
\* it does not matter
EngineRuns(reached) ==
    IF reached
    THEN {[engine |-> e, out |-> o] : e \in Engines, o \in CallOutputs} \
         {r \in [engine : Engines, out : CallOutputs] : r.engine # "prints" /\ r.out # <<>>}
    ELSE {[engine |-> "prints", out |-> <<>>]}

InitCalls ==
    /\ GeneratorIdle
    /\ StoriesIdle
    /\ PytestIdle
    /\ RunnerIdle
    /\ ReportIdle
    /\ OllamaIdle
    /\ acmd = <<>>
    /\ mcmd = <<>>
    /\ MockIdle
    /\ summaries = <<ExecutionSummary(<<>>)>>
    /\ self_summary = 1
    /\ rets = <<>>

\* what a call leaves: the object self.summary names holds what the method
\* made of it, and the caller holds that object
Returned(op, test_dir, asked, run, ran) ==
    \E bound \in {BindSummary(summaries, self_summary)} :
        /\ summaries' = [bound.objects EXCEPT ![bound.ref] = ran.summary]
        /\ self_summary' = bound.ref
        /\ rets' = Append([i \in 1..Len(rets) |-> [ref |-> rets[i].ref, held |-> rets[i].held]],
                          [op |-> op, ref |-> bound.ref, held |-> ran.summary,
                           raised |-> ran.exc, launched |-> ran.launched,
                           out |-> IF ran.launched = 1 /\ run.engine = "prints"
                                   THEN <<run.out>> ELSE <<>>,
                           test_dir |-> test_dir, asked |-> asked])
        /\ UNCHANGED <<genVars, storyVars, pytestVars, runVars, reportVars, ollamaVars, acmd,
                       mcmd, mockVars>>

\* runner.run_all_tests(test_pattern)
CallRunAllTests ==
    /\ Len(rets) < MaxRunCalls
    /\ \E test_dir \in TestDirs, pattern \in TestPatterns :
          \E found \in {find_test_files(test_dir, pattern) # {}} :
          \E run \in EngineRuns(found) :
          \E ran \in {run_all_tests(found, run.engine, run.out, DateTime(0), DateTime(1))} :
             Returned("run_all_tests", test_dir, pattern, run, ran)

\* runner.run_test_file(test_file)
CallRunTestFile ==
    /\ Len(rets) < MaxRunCalls
    /\ \E test_dir \in TestDirs, test_file \in TestFileNames :
          \E found \in {test_path_exists(test_dir, test_file)} :
          \E run \in EngineRuns(found) :
          \E ran \in {run_test_file(found, run.engine, run.out, DateTime(0), DateTime(1))} :
             Returned("run_test_file", test_dir, <<test_file>>, run, ran)

\* runner.run_test_by_pattern(pattern): the method does not look at the
\* directory, whose state is left untold
CallRunTestByPattern ==
    /\ Len(rets) < MaxRunCalls
    /\ \E pattern \in TestPatterns \ {<<>>} :
          \E run \in EngineRuns(TRUE) :
          \E ran \in {run_test_by_pattern(run.engine, run.out, DateTime(0), DateTime(1))} :
             Returned("run_test_by_pattern", <<>>, pattern, run, ran)

NextCalls ==
    \/ CallRunAllTests
    \/ CallRunTestFile
    \/ CallRunTestByPattern

SpecCalls == InitCalls /\ [][NextCalls]_vars

(***************************************************************************)
(* The mock API server answering up to MaxRequests requests: with or        *)
(* without a valid token, for a stored agent or an unknown one, with bodies *)
(* that are missing, valid, or invalid in one field.                        *)
(***************************************************************************)
MaxRequests == 2

AuthHeaders == {"", "Bearer valid-token-123", "Bearer expired-token"}

AgentIds == {AgentId(123), AgentId(999)}

Blank == <<" ">>

CreateBodies ==
    {<<>>,
     <<[name |-> <<" ","A","l">>, email |-> <<"a","@","b">>, commissionTier |-> <<20>>]>>,
     <<[name |-> <<"A","l">>, email |-> <<"a","b">>, commissionTier |-> <<20>>]>>,
     <<[name |-> <<"A","l">>, email |-> <<"a","@","b">>]>>,
     <<[name |-> Blank, email |-> <<"a","@","b">>, commissionTier |-> <<101>>]>>}

UpdateBodies ==
    {<<>>,
     <<[name |-> <<"A","l">>]>>,
     <<[name |-> Blank]>>,
     <<[name |-> <<"A","l">>, email |-> <<"a","b">>]>>,
     <<[email |-> <<"a","@","b">>, commissionTier |-> <<101>>]>>,
     <<[commissionTier |-> <<0>>, status |-> "retired"]>>,
     <<[name |-> <<"A","l">>, email |-> <<"a","@","b">>, commissionTier |-> <<100>>,
        status |-> "inactive"]>>}

InitMock ==
    /\ GeneratorIdle
    /\ StoriesIdle
    /\ PytestIdle
    /\ RunnerIdle
    /\ ReportIdle
    /\ OllamaIdle
    /\ acmd = <<>>
    /\ mcmd = <<>>
    /\ CallsIdle
    /\ store = MockAgents
    /\ agent_counter = 1000
    /\ replied = <<>>

\* fewer than MaxRequests requests were answered
Serving == IF replied = <<>> THEN TRUE ELSE replied[1].n < MaxRequests

\* the response is sent; the store is as the handler left it
Answered(op, agent_id, body, response) ==
    /\ store' = response.agents
    /\ agent_counter' = response.agent_counter
    /\ replied' = <<[n |-> IF replied = <<>> THEN 1 ELSE replied[1].n + 1,
                     op |-> op, agent_id |-> agent_id, body |-> body,
                     status |-> response.status, before |-> store]>>
    /\ UNCHANGED <<genVars, storyVars, pytestVars, runVars, reportVars, ollamaVars, acmd,
                   mcmd, callVars>>

ListAgents ==
    /\ Serving
    /\ \E auth_header \in AuthHeaders :
          Answered("list_agents", <<>>, <<>>, list_agents(store, agent_counter, auth_header))

CreateAgent ==
    /\ Serving
    /\ \E auth_header \in AuthHeaders, body \in CreateBodies :
          Answered("create_agent", <<>>, body,
                   create_agent(store, agent_counter, auth_header, body))

GetAgent ==
    /\ Serving
    /\ \E auth_header \in AuthHeaders, agent_id \in AgentIds :
          Answered("get_agent", agent_id, <<>>,
                   get_agent(store, agent_counter, auth_header, agent_id))

UpdateAgent ==
    /\ Serving
    /\ \E auth_header \in AuthHeaders, agent_id \in AgentIds, body \in UpdateBodies :
          Answered("update_agent", agent_id, body,
                   update_agent(store, agent_counter, auth_header, agent_id, body))

DeleteAgent ==
    /\ Serving
    /\ \E auth_header \in AuthHeaders, agent_id \in AgentIds :
          Answered("delete_agent", agent_id, <<>>,
                   delete_agent(store, agent_counter, auth_header, agent_id))

NextMock ==
    \/ ListAgents
    \/ CreateAgent
    \/ GetAgent
    \/ UpdateAgent
    \/ DeleteAgent

SpecMock == InitMock /\ [][NextMock]_vars

(***************************************************************************)
(* Properties.                                                             *)
(***************************************************************************)
\* the lists generate_all_tests has returned so far, as their callers see them now
ReturnedLists == [j \in 1..Len(returned) |-> lists[returned[j]]]

\* the indices of the cases of list L that belong to endpoint e
CasesOf(L, e) == {k \in 1..Len(L) : L[k].endpoint = e.path /\ L[k].method = e.method}

\* the status codes a responses mapping documents, however its keys were loaded
DocumentedStatuses(responses) ==
    {IntOfKey(responses[i].key).v : i \in {j \in 1..Len(responses) : IntOfKey(responses[j].key).ok}}

ErrorStatuses == {400, 401, 403, 404, 409, 500}
AlwaysStatuses == {400, 401, 403, 404}

\* C1: in one generate_all_tests run the k-th emitted test case has id
\* "test_k", so the ids of a run are pairwise distinct and increase in
\* emission order.
C1_IdsArePositions ==
    \A j \in 1..Len(returned) :
        LET L == ReturnedLists[j]
        IN  /\ \A k \in 1..Len(L) : L[k].id = TestPrefix \o StrNat(k)
            /\ \A k, m \in 1..Len(L) : k # m => L[k].id # L[m].id

\* C2: for every endpoint and every status s of 400, 401, 403, 404, 409, 500
\* a run emits exactly one error_scenario case expecting s when s is
\* documented in the endpoint's responses (by a string key or by an integer
\* key) or s is one of 400/401/403/404, and none otherwise.
C2_ErrorCasesMatchDocumented ==
    \A j \in 1..Len(returned) : \A i \in 1..Len(endpoints) : \A st \in ErrorStatuses :
        LET L == ReturnedLists[j]
            e == endpoints[i]
            emitted == {k \in CasesOf(L, e) : /\ L[k].scenario_type = "error_scenario"
                                              /\ L[k].expected_status = st}
        IN  Cardinality(emitted) =
                IF st \in DocumentedStatuses(e.responses) \/ st \in AlwaysStatuses
                THEN 1 ELSE 0

\* the least element of a non-empty set of integers
MinOf(S) == CHOOSE x \in S : \A y \in S : x <= y

\* C3: the happy-path case expects 201 for POST, 204 for DELETE and 200 for
\* any other method, unless the responses document a 2xx status, and then
\* the least documented 2xx status, in whatever order the document lists
\* them; a non-numeric key has no influence.
C3_HappyStatusAscending ==
    \A j \in 1..Len(returned) : \A i \in 1..Len(endpoints) :
        LET L == ReturnedLists[j]
            e == endpoints[i]
            success == {c \in DocumentedStatuses(e.responses) : 200 <= c /\ c < 300}
            expected == IF success # {} THEN MinOf(success)
                        ELSE IF e.method = <<"P","O","S","T">> THEN 201
                        ELSE IF e.method = <<"D","E","L","E","T","E">> THEN 204
                        ELSE 200
        IN  \A k \in CasesOf(L, e) :
                L[k].scenario_type = "happy_path" => L[k].expected_status = expected

EndsWith(s, suffix) ==
    Len(s) >= Len(suffix) /\ SubSeq(s, Len(s) - Len(suffix) + 1, Len(s)) = suffix

\* the number of consecutive error_scenario cases of L from index k on
RECURSIVE ErrorRun(_, _)
ErrorRun(L, k) ==
    IF k <= Len(L) /\ L[k].scenario_type = "error_scenario" THEN 1 + ErrorRun(L, k + 1) ELSE 0

EdgeSlugs ==
    <<<<"w","i","t","h","_","e","m","p","t","y","_","c","o","l","l","e","c","t","i","o","n">>,
      <<"w","i","t","h","_","n","u","l","l","_","v","a","l","u","e","s">>,
      <<"w","i","t","h","_","l","a","r","g","e","_","d","a","t","a","s","e","t">>>>
SecurityStatuses == <<401, 401, 401, 403>>

\* L is one block per endpoint of eps, in order, each block of the shape of C4
RECURSIVE WellFormedBlocks(_, _)
WellFormedBlocks(L, eps) ==
    IF Len(eps) = 0 THEN Len(L) = 0
    ELSE /\ Len(L) >= 8
         /\ LET e == eps[1]
                nerr == ErrorRun(L, 5)
                n == 4 + nerr + 4
            IN  /\ 8 <= n /\ n <= 14 /\ n <= Len(L)
                /\ \A k \in 1..n : L[k].endpoint = e.path /\ L[k].method = e.method
                /\ L[1].scenario_type = "happy_path"
                /\ \A k \in 1..3 : /\ L[1 + k].scenario_type = "edge_case"
                                   /\ L[1 + k].expected_status = 200
                                   /\ EndsWith(L[1 + k].name, EdgeSlugs[k])
                /\ \A k \in 5..(4 + nerr) : L[k].expected_status \in ErrorStatuses
                /\ \A k, m \in 5..(4 + nerr) :
                       k < m => L[k].expected_status < L[m].expected_status
                /\ \A k \in 1..4 : /\ L[4 + nerr + k].scenario_type = "security"
                                   /\ L[4 + nerr + k].expected_status = SecurityStatuses[k]
                /\ WellFormedBlocks(SubSeq(L, n + 1, Len(L)), Tail(eps))

\* C4: the output of generate_all_tests is, in endpoint order, one contiguous
\* block per endpoint: 1 happy_path case, 3 edge_case cases
\* (with_empty_collection, with_null_values, with_large_dataset, each
\* expecting 200), the error_scenario cases in the order 400, 401, 403, 404,
\* 409, 500, then 4 security cases expecting 401, 401, 401, 403, whether or
\* not the endpoint declares security; a block has 8 to 14 cases.
C4_BlockStructure ==
    \A j \in 1..Len(returned) : WellFormedBlocks(ReturnedLists[j], endpoints)

\* a run over two endpoints, one declaring security and one not, has returned
C4_Witness ==
    /\ Len(returned) >= 1
    /\ \E i, k \in 1..Len(endpoints) : /\ Len(endpoints[i].security) = 0
                                        /\ Len(endpoints[k].security) > 0
    /\ Len(ReturnedLists[1]) = 12 + 13

\* C5: two calls of generate_all_tests on one TestGenerator return sequences
\* that are equal field by field, ids included; the second call binds a new
\* list, and no call changes a list an earlier call returned.
C5_RunsAreIdentical ==
    /\ [](\A j, k \in 1..Len(returned) :
             /\ ReturnedLists[j] = ReturnedLists[k]
             /\ j # k => returned[j] # returned[k])
    /\ [][\A j \in 1..Len(returned) : lists'[returned[j]] = lists[returned[j]]]_vars

\* generate_all_tests has returned twice, each time a non-empty list
C5_Witness ==
    /\ Len(returned) = 2
    /\ Len(ReturnedLists[1]) >= 12
    /\ Len(ReturnedLists[2]) >= 12

\* the operation object of the document an endpoint was extracted from
OperationOf(e) ==
    LET i == CHOOSE k \in 1..Len(doc.paths.entries) : doc.paths.entries[k].path = e.path
    IN  doc.paths.entries[i].item.f[Lower(e.method)]

\* C6: for an endpoint whose operation declares no summary, every test case
\* has a name derived from the endpoint's path, so two summary-less
\* endpoints with different paths get different happy-path names.
C6_SummarylessNamesFromPath ==
    \A j \in 1..Len(returned) :
        LET L == ReturnedLists[j]
            bare == {i \in 1..Len(endpoints) : "summary" \notin OperationOf(endpoints[i]).keys}
            happy(i) == {L[k].name : k \in {m \in CasesOf(L, endpoints[i]) :
                                                L[m].scenario_type = "happy_path"}}
        IN  /\ \A i \in bare :
                   happy(i) = {format_test_name(endpoints[i].path, s_happy_path)}
            /\ \A i, k \in bare :
                   endpoints[i].path # endpoints[k].path => happy(i) \cap happy(k) = {}

\* the characters of s that lie in [a-z0-9]
RECURSIVE AlnumOnly(_)
AlnumOnly(s) == IF Len(s) = 0 THEN <<>>
                ELSE (IF IsAlnumLower(s[1]) THEN <<s[1]>> ELSE <<>>) \o AlnumOnly(Tail(s))

\* C7: the result of format_test_name starts with "test_", consists of
\* characters of [a-z0-9_] only, has no two adjacent underscores and ends
\* with neither; it keeps the letters and digits of the lower-cased
\* base_name + "_" + scenario, in order, after the prefix it may have added;
\* ("Create Agent", "happy_path") gives "test_create_agent_happy_path".
C7_FormatTestName ==
    fout # <<>> =>
        LET r == fout[1]
            kept == AlnumOnly(Lower(fin[1] \o <<"_">> \o fin[2]))
        IN  /\ StartsWith(r, <<"t","e","s","t","_">>)
            /\ \A i \in 1..Len(r) : IsAlnumLower(r[i]) \/ r[i] = "_"
            /\ \A i \in 1..(Len(r) - 1) : ~(r[i] = "_" /\ r[i + 1] = "_")
            /\ Len(r) > 5 => r[Len(r)] # "_"
            /\ AlnumOnly(r) \in {kept, <<"t","e","s","t">> \o kept}
            /\ fin = <<s_Create_Agent, s_happy_path>> =>
                   r = <<"t","e","s","t","_","c","r","e","a","t","e","_","a","g","e","n","t",
                         "_","h","a","p","p","y","_","p","a","t","h">>

\* format_test_name was called on the documented example
C7_Witness ==
    /\ fout # <<>>
    /\ fin = <<s_Create_Agent, s_happy_path>>
    /\ Len(fout[1]) = 28

\* the recognized methods path item i of the document declares, upper-cased
DeclaredAt(i) ==
    {Upper(m) : m \in (DOMAIN doc.paths.entries[i].item.f) \cap
                      {<<"g","e","t">>, <<"p","o","s","t">>, <<"p","u","t">>,
                       <<"d","e","l","e","t","e">>, <<"p","a","t","c","h">>,
                       <<"h","e","a","d">>, <<"o","p","t","i","o","n","s">>}}

MethodOrder == <<<<"G","E","T">>, <<"P","O","S","T">>, <<"P","U","T">>,
                 <<"D","E","L","E","T","E">>, <<"P","A","T","C","H">>,
                 <<"H","E","A","D">>, <<"O","P","T","I","O","N","S">>>>
PathPosition(path) == CHOOSE i \in 1..Len(doc.paths.entries) : doc.paths.entries[i].path = path

\* C8: for a valid document get_endpoints() holds exactly one endpoint for
\* each (path, method) the document declares among the seven recognized
\* methods and no other, ordered by path in document order and within a path
\* by GET, POST, PUT, DELETE, PATCH, HEAD, OPTIONS; so no two endpoints share
\* a key, and get_endpoint_by_path returns the unique match, or None when
\* there is none.
C8_EndpointsExactlyDeclared ==
    pstate = "ok" =>
        /\ {<<endpoints[i].path, endpoints[i].method>> : i \in 1..Len(endpoints)}
               = UNION {{<<doc.paths.entries[i].path, m>> : m \in DeclaredAt(i)} :
                          i \in 1..Len(doc.paths.entries)}
        /\ \A i, j \in 1..Len(endpoints) :
               i < j =>
                 \/ PathPosition(endpoints[i].path) < PathPosition(endpoints[j].path)
                 \/ /\ endpoints[i].path = endpoints[j].path
                    /\ IndexIn(endpoints[i].method, MethodOrder)
                           < IndexIn(endpoints[j].method, MethodOrder)
        /\ ret.op = "get_endpoints" => ret.value = endpoints
        /\ ret.op = "get_endpoint_by_path" =>
               LET matches == {i \in 1..Len(endpoints) :
                                  /\ endpoints[i].path = ret.path
                                  /\ endpoints[i].method = Upper(ret.method)}
               IN  /\ Cardinality(matches) <= 1
                   /\ ret.value.found <=> matches # {}
                   /\ ret.value.found => ret.value.index \in matches

\* a document with two paths and three endpoints was parsed and an endpoint
\* of its second path was looked up and found
C8_Witness ==
    /\ pstate = "ok"
    /\ Len(endpoints) >= 3
    /\ ret.op = "get_endpoint_by_path"
    /\ ret.value.found
    /\ ret.value.index >= 2
    /\ ret.method = <<"P","o","s","t">>

RecognizedMethods == {<<"g","e","t">>, <<"p","o","s","t">>, <<"p","u","t">>,
                      <<"d","e","l","e","t","e">>, <<"p","a","t","c","h">>,
                      <<"h","e","a","d">>, <<"o","p","t","i","o","n","s">>}

\* a path item that declares none of the recognized methods (an item that is
\* no mapping declares none)
DeclaresNoMethod(item) == ~item.isObject \/ (DOMAIN item.f) \cap RecognizedMethods = {}

\* a declared method definition of the item that is not an object
HasNonObjectMethod(item) ==
    item.isObject /\ \E m \in (DOMAIN item.f) \cap RecognizedMethods : ~item.f[m].isObject

\* the top-level conditions of C9 (an info or paths that is no mapping has
\* no title, no version, no path)
TopLevelMalformed ==
    \/ ~doc.openapi.present \/ ~doc.info.present \/ ~doc.paths.present
    \/ ~StartsWith(doc.openapi.value, <<"3", ".">>)
    \/ ~doc.info.isObject \/ ~doc.info.hasTitle \/ ~doc.info.hasVersion
    \/ ~doc.paths.isObject \/ Len(doc.paths.entries) = 0

C10_EndpointsImmutable ==
    pstate = "ok" => endpoints = ExtractEndpoints(doc.paths.entries, <<>>).endpoints

(***************************************************************************)
(* Properties of the user-story parser.                                    *)
(***************************************************************************)
AllCriteria == UNION {{stories[i].acceptance_criteria[j] :
                          j \in 1..Len(stories[i].acceptance_criteria)} :
                      i \in 1..Len(stories)}

\* the Then clauses of the criterion lines of StoryLines
ThenClauses == {<<"a"," ","2","0","1"," ","i","s"," ","r","e","t","u","r","n","e","d",".">>, <<"z","z">>}

\* C11: the documented header and criterion give one story "US1" with one
\* criterion whose given, when and then are the three clauses, and the then
\* field of every criterion is the whole text of its Then clause.
C11_ThenHoldsWholeClause ==
    sstate # "new" =>
        /\ content = JoinLines(<<StoryLines.header, StoryLines.criterion>>) =>
              /\ Len(stories) = 1
              /\ stories[1].id = <<"U","S","1">>
              /\ Len(stories[1].acceptance_criteria) = 1
              /\ stories[1].acceptance_criteria[1].given = <<"a"," ","v","a","l","i","d"," ","p","a","y","l","o","a","d">>
              /\ stories[1].acceptance_criteria[1].when = <<"P","O","S","T"," ","/","a","g","e","n","t","s"," ","i","s"," ","c","a","l","l","e","d">>
              /\ stories[1].acceptance_criteria[1].then = <<"a"," ","2","0","1"," ","i","s"," ","r","e","t","u","r","n","e","d",".">>
        /\ \A c \in AllCriteria : c.then \in ThenClauses

ContentLines == {SplitLines(content)[i] : i \in 1..Len(SplitLines(content))}
StoriesLackingCriteria == {i \in 1..Len(stories) : Len(stories[i].acceptance_criteria) = 0}

\* what loading guarantees whichever stories count as carrying no criteria
LoadOutcome(failing) ==
    sstate # "new" =>
        /\ (\A l \in ContentLines : ~StartsWith(l, <<"#","#">>)) =>
              (sstate = "ok" /\ stories = <<>>)
        /\ ({StoryLines.header, StoryLines.user_header} \cap ContentLines # {}) =>
              Len(stories) > 0
        /\ Len(stories) = 0 => sstate = "ok"
        /\ Len(stories) > 0 =>
              /\ sstate = "error" <=> failing
              /\ sstate = "ok" =>
                    \A i \in 1..Len(stories) :
                        /\ Len(stories[i].title) > 0
                        /\ Len(stories[i].acceptance_criteria) > 0

\* C12 as stated: a file without a story header loads as an empty list; one
\* with a header fails exactly when the parsed stories carry no acceptance
\* criterion at all, and otherwise every story has a title and a criterion.
C12_FailsIffNoCriteriaAtAll ==
    LoadOutcome(StoriesLackingCriteria = 1..Len(stories))

\* C12 amended: a file without a story header loads as an empty list; one
\* with a header fails exactly when at least one parsed story carries no
\* acceptance criterion, and otherwise every story has a non-empty title and
\* at least one criterion.
C12_FailsIffSomeStoryLacksCriteria ==
    LoadOutcome(StoriesLackingCriteria # {})

C12_Witness ==
    /\ sstate = "error"
    /\ Len(stories) = 2
    /\ StoriesLackingCriteria = {2}

\* the parsed output, as parse sees it: the lines without colour codes
OutputText == SplitLines(StripAnsi(output))

\* <file>.py::<test-name> <STATUS> somewhere in the line, told without the
\* pattern: the text before the first "::" ends in ".py", the test name is
\* the run up to the next blank and has no "[", and the word after the
\* blanks begins with a status
ShapeOf(line) ==
    LET seps == {i \in 1..Len(line) - 1 : SubSeq(line, i, i + 1) = <<":",":">>}
        sep == CHOOSE i \in seps : \A j \in seps : i <= j
        after == SubSeq(line, sep + 2, Len(line))
        blanks == {i \in 1..Len(after) : IsSpace(after[i])}
        blank == CHOOSE i \in blanks : \A j \in blanks : i <= j
        word == StripWs(SubSeq(after, blank, Len(after)))
        names == {n \in DOMAIN TestStatus : StartsWith(word, TestStatus[n])}
    IN  IF seps = {} \/ blanks = {} THEN <<>>
        ELSE IF /\ EndsWith(SubSeq(line, 1, sep - 1), <<".","p","y">>)
                /\ sep > 4
                /\ blank > 1
                /\ IndexIn("[", SubSeq(after, 1, blank - 1)) = 0
                /\ names # {}
        THEN <<[test_file |-> SubSeq(line, 1, sep - 1),
                test_name |-> SubSeq(after, 1, blank - 1),
                status |-> CHOOSE n \in names : TRUE,
                brackets |-> StripWs(SubSeq(word, Len(TestStatus[CHOOSE n \in names : TRUE]) + 1,
                                            Len(word)))]>>
        ELSE <<>>

\* the shaped lines of the output, in line order
ShapedLines ==
    LET RECURSIVE collect(_)
        collect(i) == IF i > Len(OutputText) THEN <<>>
                      ELSE ShapeOf(OutputText[i]) \o collect(i + 1)
    IN  collect(1)

\* the duration token of a shaped line: the text of its first bracket when
\* that is not the percentage bracket, <<>> when there is none
DurationToken(shape) ==
    LET b == shape.brackets
        close == IndexIn("]", b)
        tok == SubSeq(b, 2, close - 1)
    IN  IF Len(b) = 0 \/ close = 0 \/ EndsWith(tok, <<"%">>) THEN <<>> ELSE tok

\* what a duration token says in milliseconds, <<>> when it has neither unit
\* or no number
MillisOf(tok) ==
    IF EndsWith(tok, <<"m","s">>)
    THEN ParseFloat(SubSeq(tok, 1, Len(tok) - 2))
    ELSE IF EndsWith(tok, <<"s">>)
    THEN LET v == ParseFloat(SubSeq(tok, 1, Len(tok) - 1))
         IN  IF Len(v) = 1 THEN <<Frac(v[1][1] * 1000, v[1][2])>> ELSE <<>>
    ELSE <<>>

\* C14: the duration token of a result line is converted to milliseconds for
\* both units: a token in seconds ("0.1s") is multiplied by 1000 and a token
\* in milliseconds ("100ms") keeps its numeric value, so [100ms] gives 100.0
\* as [0.1s] does.
C14_DurationInMilliseconds ==
    Len(presults) = 1 =>
        /\ Len(presults[1]) = Len(ShapedLines)
        /\ \A k \in 1..Len(ShapedLines) :
              LET ms == MillisOf(DurationToken(ShapedLines[k]))
              IN  Len(ms) = 1 => presults[1][k].duration_ms = ms[1]

ErrorMessageLines(r) == IF r.error_message = <<>> THEN <<>> ELSE SplitLines(r.error_message[1])

\* C16: the error body of a FAILED/ERROR test has only non-blank lines that
\* do not start with "=" and that come before the next result line of any
\* status: no result line, PASSED and SKIPPED ones included, is ever part of
\* an error_message.
C16_ErrorBodyEndsAtNextResultLine ==
    Len(presults) = 1 =>
        \A k \in 1..Len(presults[1]) :
            LET body == ErrorMessageLines(presults[1][k])
            IN  \A j \in 1..Len(body) :
                    /\ Len(StripWs(body[j])) > 0
                    /\ ~StartsWith(body[j], <<"=">>)
                    /\ ShapeOf(body[j]) = <<>>

RunMethods == {"run_all_tests", "run_test_file", "run_test_by_pattern"}

\* C13: run_all_tests, run_test_file and run_test_by_pattern never raise to
\* the caller; when launching pytest fails or it times out, the call returns
\* a summary whose errors hold one string describing the failure, whose
\* test_results is empty, whose five counters are 0 and whose end_time is set.
C13_RunNeverRaises ==
    called.op \in RunMethods =>
        /\ called.raised = ""
        /\ called.env \in {"missing", "hangs"} =>
              /\ Len(summary.errors) = 1
              /\ Len(summary.errors[1]) > 0
              /\ summary.test_results = <<>>
              /\ summary.total_tests = 0
              /\ summary.passed_tests = 0
              /\ summary.failed_tests = 0
              /\ summary.skipped_tests = 0
              /\ summary.error_tests = 0
              /\ summary.end_time # <<>>

C13_Witness ==
    /\ called.op = "run_test_by_pattern"
    /\ called.env = "hangs"
    /\ Len(engine_out) > 0
    /\ Len(summary.errors) = 1

\* the run command got a summary from run_tests and went on to the reports
ReportsAttempted == sdict # <<>> /\ ~sdict[1].empty

\* the report file of a format exists in the output directory
Written(format) ==
    CASE format = "html" -> reports.html
      [] format = "md"   -> reports.md
      [] format = "json" -> json_text # <<>>

\* YYYY-MM-DDTHH:MM:SS
IsIso8601(x) ==
    /\ x.t = "str"
    /\ Len(x.v) = 19
    /\ \A i \in 1..19 :
          CASE i \in {5, 8}   -> x.v[i] = "-"
            [] i = 11         -> x.v[i] = "T"
            [] i \in {14, 17} -> x.v[i] = ":"
            [] OTHER          -> IndexIn(x.v[i], Digits) > 0

\* C17: after a run (or full) command whose test execution returned a
\* summary, and with nothing in the way of writing, the output directory
\* holds test_report.html, test_report.md and test_report.json, the JSON one
\* with start_time and end_time as ISO-8601 strings.
C17_RunLeavesThreeReports ==
    (ReportsAttempted /\ reports.failed = {}) =>
        /\ Written("html")
        /\ Written("md")
        /\ Written("json")
        /\ IsIso8601(JsonGet(JsonLoad(json_text[1]), Key.start_time))
        /\ IsIso8601(JsonGet(JsonLoad(json_text[1]), Key.end_time))

\* C18: when one of the three report formats fails, the failure is logged and
\* the other two reports are still generated, whichever format it is.
C18_ReportsBestEffortPerFormat ==
    (ReportsAttempted /\ Cardinality(reports.failed) = 1) =>
        /\ reports.warnings > 0
        /\ \A format \in Formats \ reports.failed : Written(format)

\* C19: parsing the text generate_json_report wrote for a summary with
\* datetime or absent timestamps gives back the summary's total_tests,
\* passed_tests, failed_tests and skipped_tests and a test_results array
\* with one entry per result, each with its test_name, test_file and status.
C19_JsonRoundTrip ==
    loaded # <<>> =>
        LET j == loaded[1]
            entries == JsonGet(j, Key.test_results)
        IN  /\ JsonGet(j, Key.total_tests) = [t |-> "int", v |-> summary.total_tests]
            /\ JsonGet(j, Key.passed_tests) = [t |-> "int", v |-> summary.passed_tests]
            /\ JsonGet(j, Key.failed_tests) = [t |-> "int", v |-> summary.failed_tests]
            /\ JsonGet(j, Key.skipped_tests) = [t |-> "int", v |-> summary.skipped_tests]
            /\ entries.t = "list"
            /\ Len(entries.v) = Len(summary.test_results)
            /\ \A i \in 1..Len(summary.test_results) :
                  LET r == summary.test_results[i]
                  IN  /\ JsonGet(entries.v[i], Key.test_name) = [t |-> "str", v |-> r.test_name]
                      /\ JsonGet(entries.v[i], Key.test_file) = [t |-> "str", v |-> r.test_file]
                      /\ JsonGet(entries.v[i], Key.status) = [t |-> "str", v |-> TestStatus[r.status]]

C19_Witness ==
    /\ loaded # <<>>
    /\ summary.start_time # <<>>
    /\ Len(summary.test_results) = 2
    /\ summary.test_results[1].status = "FAILED"
    /\ IndexIn("\"", summary.test_results[2].test_name) > 0

\* C20: success_rate is passed_tests / total_tests x 100 when total_tests > 0
\* and exactly 0.0, with no division error, when total_tests = 0; for the
\* summary of every TestRunner run it lies between 0 and 100.  The same holds
\* of the success_rate that to_dict hands to the run command.
C20_SuccessRate ==
    called.op # "none" =>
        LET rate == success_rate(summary)
            handed == IF ReportsAttempted THEN sdict[1].d[1].success_rate ELSE rate
        IN  /\ handed = rate
            /\ rate[2] > 0
            /\ summary.total_tests > 0 =>
                  rate[1] * summary.total_tests = summary.passed_tests * 100 * rate[2]
            /\ summary.total_tests = 0 => rate = <<0, 1>>
            /\ 0 <= rate[1]
            /\ rate[1] <= 100 * rate[2]

C20_Witness ==
    /\ ReportsAttempted
    /\ summary.total_tests = 2
    /\ summary.passed_tests = 1
    /\ sdict[1].d[1].success_rate = <<50, 1>>

\* the status a success rate of r per cent stands for
BannerFor(r) ==
    IF r[1] >= 80 * r[2] THEN "PASS" ELSE IF r[1] >= 50 * r[2] THEN "PARTIAL" ELSE "FAIL"

RateOf(s) == IF s.total_tests = 0 THEN <<0, 1>> ELSE <<100 * s.passed_tests, s.total_tests>>

\* C21: the HTML and the Markdown report of one summary show the same
\* status banner, which is PASS from a success rate of 80, PARTIAL from 50
\* to below 80 and FAIL below 50, whatever the rows of the report are
C21_BannerFromSuccessRate ==
    /\ built_html # <<>> =>
          /\ built_html[1].banner.text = BannerFor(RateOf(rsummary))
          /\ built_html[1].banner.class
                = [PASS |-> "status-pass", PARTIAL |-> "status-partial",
                   FAIL |-> "status-fail"][BannerFor(RateOf(rsummary))]
    /\ built_md # <<>> => built_md[1].banner = BannerFor(RateOf(rsummary))
    /\ (built_html # <<>> /\ built_md # <<>>) => built_html[1].banner.text = built_md[1].banner

\* both reports are built of a summary at 79.9 per cent whose last row passed
C21_Witness ==
    /\ built_html # <<>>
    /\ built_md # <<>>
    /\ rsummary.passed_tests = 799
    /\ rsummary.total_tests = 1000
    /\ Len(rsummary.test_results) > 0
    /\ rsummary.test_results[Len(rsummary.test_results)].status = "PASSED"
    /\ built_md[1].banner = "PARTIAL"

FilesOf(results) == {results[i].test_file : i \in 1..Len(results)}

\* C22: the Markdown report has one section per distinct test_file of the
\* results, in ascending order of test_file; each section lists the results
\* of its file in their original order and shows how many of them PASSED and
\* how many FAILED
C22_MarkdownSectionsByFile ==
    built_md # <<>> =>
        LET sections == built_md[1].sections
            results == rsummary.test_results
        IN  /\ {sections[k].test_file : k \in 1..Len(sections)} = FilesOf(results)
            /\ Len(sections) = Cardinality(FilesOf(results))
            /\ \A k \in 1..(Len(sections) - 1) :
                  StrLess(sections[k].test_file, sections[k + 1].test_file)
            /\ \A k \in 1..Len(sections) :
                  LET own == SelectSeq(results, LAMBDA r : r.test_file = sections[k].test_file)
                  IN  /\ Len(sections[k].rows) = Len(own)
                      /\ \A i \in 1..Len(own) :
                            /\ sections[k].rows[i].test_name = own[i].test_name
                            /\ sections[k].rows[i].status = TestStatus[own[i].status]
                      /\ sections[k].passed = Len(SelectSeq(own, LAMBDA r : r.status = "PASSED"))
                      /\ sections[k].failed = Len(SelectSeq(own, LAMBDA r : r.status = "FAILED"))

\* a report of results whose files were met in descending order
C22_Witness ==
    /\ built_md # <<>>
    /\ Len(rsummary.test_results) = 2
    /\ StrLess(rsummary.test_results[2].test_file, rsummary.test_results[1].test_file)
    /\ Len(built_md[1].sections) = 2
    /\ built_md[1].sections[1].failed = 1

\* the request failed, or was answered with another status than 200, or
\* with a body of which a line cannot be decoded and the other lines are
\* JSON objects
ServiceFailed ==
    \/ service.k \in {"ConnectionError", "Timeout"}
    \/ service.status # 200
    \/ /\ \E i \in 1..Len(service.body) : service.body[i].k \in {"malformed", "badutf8"}
       /\ \A i \in 1..Len(service.body) : service.body[i].k # "list"

\* C23: generate_text and chat send at most one HTTP request per call, and
\* when the request fails, or the answer has another status than 200 or a
\* body that cannot be decoded, they return "" and raise nothing
C23_OneRequestEmptyOnFailure ==
    /\ posts <= ncalls
    /\ (oret # <<>> /\ ServiceFailed) => (oret[1].raised = "" /\ oret[1].val = <<>>)

\* the command asked the model and got "" back
EmptyFromModel == acmd # <<>> /\ acmd[1].llm.asked /\ acmd[1].llm.raised = "" /\ acmd[1].llm.val = <<>>

\* C24: in generate_tests_ai.py main and in generate and full of
\* run_agent.py, when the call of the language model returns "" no test file
\* is written, the command goes on to no test run and no report, and it does
\* not end by saying that the generation is complete or was successful
C24_EmptyResultIsFatal ==
    EmptyFromModel =>
        /\ "test_code" \notin acmd[1].written
        /\ \A i \in 1..Len(acmd[1].steps) :
              acmd[1].steps[i] \notin {"save_test_code", "run_tests", "generate_reports"}
        /\ acmd[1].said \notin {"Generation complete!", "Complete workflow finished!",
                                "generated successfully"}

\* the OpenAPI file is missing, cannot be parsed, or holds a document that
\* lacks a required part or has a path item without any method
OpenapiMissingOrMalformed ==
    \/ mcmd[1].openapi_file \in {"missing", "unparsable"}
    \/ /\ mcmd[1].openapi_file = "document"
       /\ \/ TopLevelMalformed
          \/ \E i \in 1..Len(doc.paths.entries) : DeclaresNoMethod(doc.paths.entries[i].item)

\* the stories file is missing, or one of its stories has no acceptance
\* criterion
StoriesMissingOrMalformed ==
    \/ mcmd[1].stories_file = "missing"
    \/ /\ mcmd[1].stories_file = "text"
       /\ \E i \in 1..Len(parse_markdown(content)) :
             Len(parse_markdown(content)[i].acceptance_criteria) = 0

\* C25: the generate command of src/main.py, given a missing or malformed
\* OpenAPI document or stories file, ends with a non-zero exit status before
\* generate_all_tests is reached, and writes no test module and no
\* specification document
C25_HaltsBeforeSynthesis ==
    (mcmd # <<>> /\ (OpenapiMissingOrMalformed \/ StoriesMissingOrMalformed)) =>
        /\ mcmd[1].exit # 0
        /\ \A i \in 1..Len(mcmd[1].steps) :
              mcmd[1].steps[i] \notin {"generate_all_tests", "generate_test_code",
                                       "generate_test_specification"}
        /\ mcmd[1].written = {}
        /\ returned = <<>>
        /\ ret = NoRet

\* a well-formed document with a stories file whose story has no criterion
C25_Witness ==
    /\ mcmd # <<>>
    /\ mcmd[1].openapi_file = "document"
    /\ ~OpenapiMissingOrMalformed
    /\ mcmd[1].stories_file = "text"
    /\ StoriesMissingOrMalformed
    /\ pstate = "ok"
    /\ sstate = "error"
    /\ mcmd[1].exit = 1

\* C26: within the block of test cases generated for one endpoint the names
\* are pairwise distinct, across scenario types too
C26_NamesDistinctWithinEndpoint ==
    \A j \in 1..Len(returned) :
        \A e \in 1..Len(endpoints) :
            \A a, b \in CasesOf(ReturnedLists[j], endpoints[e]) :
                a # b => ReturnedLists[j][a].name # ReturnedLists[j][b].name

\* the indices of the shaped lines of the output, ascending
ShapedAt == {i \in 1..Len(OutputText) : ShapeOf(OutputText[i]) # <<>>}

\* the line of the output that named the k-th result
NamingLine(k) == CHOOSE i \in ShapedAt : Cardinality({j \in ShapedAt : j <= i}) = k

\* a line of error text: not blank, not starting with "=", not a result line
IsBodyLine(line) ==
    /\ Len(StripWs(line)) > 0
    /\ ~StartsWith(line, <<"=">>)
    /\ ShapeOf(line) = <<>>

\* C27: after parse(), every FAILED or ERROR result whose naming line is
\* followed by a line of error text has a non-empty error_message, the last
\* failing test of the output included
C27_FailingTestsHaveErrorMessage ==
    Len(presults) = 1 =>
        \A k \in 1..Len(presults[1]) :
            (/\ presults[1][k].status \in {"FAILED", "ERROR"}
             /\ Len(presults[1]) = Cardinality(ShapedAt)
             /\ NamingLine(k) < Len(OutputText)
             /\ IsBodyLine(OutputText[NamingLine(k) + 1]))
            => /\ presults[1][k].error_message # <<>>
               /\ Len(presults[1][k].error_message[1]) > 0

\* how many lines of the text out have the shape of a result line of status st
StatusCount(out, st) ==
    LET lines == SplitLines(StripAnsi(out))
    IN  Cardinality({i \in 1..Len(lines) :
                        ShapeOf(lines[i]) # <<>> /\ ShapeOf(lines[i])[1].status = st})

\* C28: every summary a run method returns, after any sequence of calls on
\* one TestRunner, has total_tests = len(test_results) = passed + failed +
\* skipped + error, counts the results of its own call only, and is not
\* changed by a later call
C28_SummaryCountsOwnCall ==
    /\ rets # <<>> =>
          LET r == rets[Len(rets)]
              s == r.held
              printed(st) == IF r.out = <<>> THEN 0 ELSE StatusCount(r.out[1], st)
          IN  /\ r.raised = ""
              /\ s.total_tests = Len(s.test_results)
              /\ s.total_tests = s.passed_tests + s.failed_tests + s.skipped_tests
                                 + s.error_tests
              /\ s.passed_tests = printed("PASSED")
              /\ s.failed_tests = printed("FAILED")
              /\ s.skipped_tests = printed("SKIPPED")
              /\ s.error_tests = printed("ERROR")
    /\ \A i \in 1..Len(rets) : summaries[rets[i].ref] = rets[i].held

\* a call that found two results, then one that found one
C28_Witness ==
    /\ Len(rets) = 2
    /\ rets[1].held.total_tests = 2
    /\ rets[2].held.total_tests = 1
    /\ rets[2].held.passed_tests = 1
    /\ summaries[rets[1].ref].failed_tests = 1

\* the last call had nothing to run: run_all_tests on a missing directory or
\* one without a test_*.py file whose name contains the pattern, run_test_file
\* on a file that does not exist
NothingToRunAt(r) ==
    \/ /\ r.op = "run_all_tests"
       /\ \/ r.test_dir = <<>>
          \/ ~\E f \in r.test_dir[1] :
                 /\ StartsWith(f, <<"t","e","s","t","_">>)
                 /\ EndsWith(f, <<".","p","y">>)
                 /\ r.asked # <<>> => Contains(r.asked[1], f)
    \/ /\ r.op = "run_test_file"
       /\ (r.test_dir = <<>> \/ r.asked[1] \notin r.test_dir[1])

\* C29: a call with nothing to run starts no subprocess and returns a
\* summary with one error string, no results and end_time set
C29_NothingToRunLaunchesNothing ==
    (rets # <<>> /\ NothingToRunAt(rets[Len(rets)])) =>
        LET r == rets[Len(rets)]
        IN  /\ r.launched = 0
            /\ r.raised = ""
            /\ Len(r.held.errors) = 1
            /\ Len(r.held.errors[1]) > 0
            /\ r.held.test_results = <<>>
            /\ r.held.total_tests = 0
            /\ r.held.end_time # <<>>

\* run_all_tests with a pattern no test file's name contains, in a directory
\* that holds a test file
C29_Witness ==
    /\ rets # <<>>
    /\ rets[Len(rets)].op = "run_all_tests"
    /\ rets[Len(rets)].test_dir # <<>>
    /\ \E f \in rets[Len(rets)].test_dir[1] : IsTestFileName(f)
    /\ rets[Len(rets)].asked = <<<<"z","z">>>>
    /\ rets[Len(rets)].launched = 0

\* C30: a request the mock API server answers with 401, 404 or 400 leaves
\* the agents dict as it was; a PUT whose name is valid and whose email is
\* not is answered with 400 and the stored agent keeps all its values
C30_RejectedRequestChangesNothing ==
    replied # <<>> =>
        /\ replied[1].status \in {400, 401, 404} => store = replied[1].before
        /\ (/\ replied[1].op = "update_agent"
            /\ replied[1].agent_id \in DOMAIN replied[1].before
            /\ replied[1].body # <<>>
            /\ {"name", "email"} \subseteq DOMAIN replied[1].body[1]
            /\ ~NameIsEmpty(replied[1].body[1].name)
            /\ EmailIsInvalid(replied[1].body[1].email)
            /\ replied[1].status # 401)
           => /\ replied[1].status = 400
              /\ store[replied[1].agent_id] = replied[1].before[replied[1].agent_id]

====
